---- MODULE Spec2Model ----
(***************************************************************************)
(* A model of the stylist CSS parser (packages/stylist-core/src/parser.rs) *)
(* and of the parse cache that fronts it.  Source text is a sequence of    *)
(* one-character strings; every grammar rule is an operator over the text  *)
(* and a 1-based cursor that returns a ParseResult.                        *)
(***************************************************************************)
EXTENDS Integers, Sequences, FiniteSets, TLC

VARIABLES
    mode,     \* which grammar the source text is assembled for
    src,      \* the source text handed to Parser::parse
    npieces,  \* how many pieces the text was assembled from
    depth,    \* how many times the text was nested in an at-rule
    phase,    \* "edit" while the text is assembled, "parsed" once parse ran
    out,      \* the IResult of Parser::sheet on src (phase = "parsed")
    res,      \* the Result<Sheet> of Parser::parse on src (phase = "parsed")
    inner,    \* the Sheet parsed from the text before it was last nested
    cache,    \* the parse cache: source text -> Sheet
    lock,     \* the holder of the cache's mutex, or NoThread
    pc,       \* per caller: its position in the cached parse
    req,      \* per caller: the text it asked for
    ret,      \* per caller: what its last call returned
    hit,      \* per caller: the cache key its last call was served from
    parses,   \* per text: how many times the parser ran on it
    calls,    \* per caller: how many calls it has made
    styles,   \* StyleRegistry.styles: the entries of the HashMap
    regop,    \* the last operation on the registry and how it ended
    expansion,\* the last expansion of the literal macro and how it ended
    usage,    \* per ReifyContext: its AllowedUsage
    dynamic,  \* per ReifyContext: uses_dynamic_argument was called on it
    answer    \* per ReifyContext: what its last is_static call returned

parserVars == <<mode, src, npieces, depth, phase, out, res, inner>>
cacheVars == <<cache, lock, pc, req, ret, hit, parses, calls>>
libVars == <<styles, regop, expansion, usage, dynamic, answer>>
vars == <<mode, src, npieces, depth, phase, out, res, inner,
          cache, lock, pc, req, ret, hit, parses, calls,
          styles, regop, expansion, usage, dynamic, answer>>

----------------------------------------------------------------------------
(* Characters *)

Whitespace == {" ", "\t", "\r", "\n"}
Lower == {"a","b","c","d","e","f","g","h","i","j","k","l","m",
          "n","o","p","q","r","s","t","u","v","w","x","y","z"}
Upper == {"A","B","C","D","E","F","G","H","I","J","K","L","M",
          "N","O","P","Q","R","S","T","U","V","W","X","Y","Z"}
Alpha == Lower \cup Upper
Digit == {"0","1","2","3","4","5","6","7","8","9"}
\* one representative of the characters for which char::is_ascii is false
NonAscii == {"U+00E9"}

----------------------------------------------------------------------------
(* IResult and the nom combinators the parser is built from *)

Ok(p, v) == [ok |-> TRUE, pos |-> p, val |-> v]
Err == [ok |-> FALSE, pos |-> 0, val |-> <<>>]

Span(s, i, j) == SubSeq(s, i, j - 1)

RECURSIVE take_while(_, _, _)
take_while(C, s, i) ==
    IF i <= Len(s) /\ s[i] \in C THEN take_while(C, s, i + 1) ELSE i

RECURSIVE take_till(_, _, _)
take_till(C, s, i) ==
    IF i <= Len(s) /\ s[i] \notin C THEN take_till(C, s, i + 1) ELSE i

\* is_not(chars): the longest non-empty run of characters outside chars
is_not(C, s, i) ==
    LET j == take_till(C, s, i)
    IN  IF j = i THEN Err ELSE Ok(j, Span(s, i, j))

\* take_while1(pred) / alpha1 / alphanumeric1: a non-empty run inside C
take_while1(C, s, i) ==
    LET j == take_while(C, s, i)
    IN  IF j = i THEN Err ELSE Ok(j, Span(s, i, j))

tag(t, s, i) ==
    IF i + Len(t) - 1 <= Len(s) /\ SubSeq(s, i, i + Len(t) - 1) = t
    THEN Ok(i + Len(t), t)
    ELSE Err

none_of(C, s, i) ==
    IF i <= Len(s) /\ s[i] \notin C THEN Ok(i + 1, <<s[i]>>) ELSE Err

anychar(s, i) == IF i <= Len(s) THEN Ok(i + 1, <<s[i]>>) ELSE Err

\* opt(p): the result r of p at i, or success without consuming
opt(r, i) == IF r.ok THEN r ELSE Ok(i, <<>>)

\* A combinator takes the parser it wraps by name; apply(p, s, i) runs the
\* grammar rule named p on s at i (it is defined after the rules).
RECURSIVE apply(_, _, _)

\* many0 / many1: repeat until the parser fails; an iteration that succeeds
\* without consuming is an error (nom's infinite loop check)
RECURSIVE many_loop(_, _, _, _)
\* a repetition that keeps an item that consumed nothing
many_loop_lenient(P, s, i, acc) ==
    LET r == apply(P, s, i)
    IN  IF ~r.ok THEN Ok(i, acc)
        ELSE IF r.pos = i THEN Ok(i, Append(acc, r.val))
        ELSE many_loop(P, s, r.pos, Append(acc, r.val))

many_loop(P, s, i, acc) ==
    LET r == apply(P, s, i)
    IN  IF ~r.ok THEN Ok(i, acc)
        ELSE IF r.pos = i THEN Err
        ELSE many_loop(P, s, r.pos, Append(acc, r.val))

many0(P, s, i) == many_loop(P, s, i, <<>>)

many1(P, s, i) ==
    LET r == apply(P, s, i)
    IN  IF ~r.ok THEN Err ELSE many_loop(P, s, r.pos, <<r.val>>)

\* separated_list0(tag(sep), P)
RECURSIVE separated_loop(_, _, _, _, _)
separated_loop(sep, P, s, i, acc) ==
    LET d == tag(sep, s, i)
    IN  IF ~d.ok THEN Ok(i, acc)
        ELSE LET r == apply(P, s, d.pos)
             IN  IF ~r.ok THEN Ok(i, acc)
                 ELSE separated_loop(sep, P, s, r.pos, Append(acc, r.val))

separated_list0(sep, P, s, i) ==
    LET r == apply(P, s, i)
    IN  IF ~r.ok THEN Ok(i, <<>>)
        ELSE separated_loop(sep, P, s, r.pos, <<r.val>>)

\* str::trim
RECURSIVE trim_end(_)
trim_end(t) ==
    IF Len(t) > 0 /\ t[Len(t)] \in Whitespace
    THEN trim_end(SubSeq(t, 1, Len(t) - 1))
    ELSE t

trim(t) == LET a == take_while(Whitespace, t, 1)
           IN  trim_end(SubSeq(t, a, Len(t)))

----------------------------------------------------------------------------
(* Fragment and ident primitives *)

expect_non_empty(s, i) == i <= Len(s)

sp(s, i) ==
    IF ~expect_non_empty(s, i) THEN Err
    ELSE Ok(take_while(Whitespace, s, i), <<>>)

trimmed(P, s, i) ==
    LET a == opt(sp(s, i), i).pos
        r == apply(P, s, a)
    IN  IF ~r.ok THEN Err
        ELSE Ok(opt(sp(s, r.pos), r.pos).pos, r.val)

\* many0(alt((is_not("*"), terminated(tag("*"), not(char('/'))))))
RECURSIVE cmt_text(_, _)
cmt_text(s, i) ==
    LET a == is_not({"*"}, s, i)
    IN  IF a.ok THEN cmt_text(s, a.pos)
        ELSE IF tag(<<"*">>, s, i).ok /\ ~tag(<<"/">>, s, i + 1).ok
             THEN cmt_text(s, i + 1)
             ELSE i

cmt_delimited(s, i) ==
    LET a == tag(<<"/", "*">>, s, i)
    IN  IF ~a.ok THEN Err
        ELSE LET b == cmt_text(s, a.pos)
                 c == tag(<<"*", "/">>, s, b)
             IN  IF ~c.ok THEN Err ELSE Ok(c.pos, Span(s, a.pos, b))

cmt(s, i) ==
    IF ~expect_non_empty(s, i) THEN Err ELSE trimmed("cmt_delimited", s, i)

trim_cmt(P, s, i) ==
    LET a == opt(cmt(s, i), i).pos
        r == apply(P, s, a)
    IN  IF ~r.ok THEN Err
        ELSE Ok(opt(cmt(s, r.pos), r.pos).pos, r.val)

IdentStart == {"-", "_"} \cup Alpha \cup NonAscii
IdentRest == {"-", "_"} \cup Alpha \cup Digit \cup NonAscii

ident(s, i) ==
    IF i <= Len(s) /\ s[i] \in IdentStart
    THEN LET j == take_while(IdentRest, s, i + 1) IN Ok(j, Span(s, i, j))
    ELSE Err

\* many0(alt((is_not("\\\""), escaped_char)))
\* a string that ends at the first quote, escaped or not
string_text_no_escape(s, i) == take_till({"\""}, s, i)

RECURSIVE string_text(_, _)
string_text(s, i) ==
    LET a == is_not({"\\", "\""}, s, i)
    IN  IF a.ok THEN string_text(s, a.pos)
        ELSE IF tag(<<"\\">>, s, i).ok /\ anychar(s, i + 1).ok
             THEN string_text(s, i + 2)
             ELSE i

parse_str(s, i) ==
    LET a == tag(<<"\"">>, s, i)
    IN  IF ~a.ok THEN Err
        ELSE LET c == tag(<<"\"">>, s, string_text(s, a.pos))
             IN  IF ~c.ok THEN Err ELSE Ok(c.pos, Span(s, i, c.pos))

string(s, i) ==
    IF ~expect_non_empty(s, i) THEN Err ELSE trimmed("parse_str", s, i)

\* recognize(preceded(alpha1, many0(alt((alphanumeric1, tag("_"))))))
interpolation_name(s, i) ==
    IF i <= Len(s) /\ s[i] \in Alpha
    THEN LET j == take_while(Alpha \cup Digit \cup {"_"}, s, i + 1)
         IN  Ok(j, Span(s, i, j))
    ELSE Err

interpolation_delimited(s, i) ==
    LET a == tag(<<"$", "{">>, s, i)
    IN  IF ~a.ok THEN Err
        ELSE LET n == trimmed("interpolation_name", s, a.pos)
             IN  IF ~n.ok THEN Err
                 ELSE LET c == tag(<<"}">>, s, n.pos)
                      IN  IF ~c.ok THEN Err ELSE Ok(c.pos, n.val)

interpolation(s, i) ==
    IF ~expect_non_empty(s, i) THEN Err
    ELSE trimmed("interpolation_delimited", s, i)

----------------------------------------------------------------------------
(* The AST: StringFragment, Selector, StyleAttribute, Block, Rule, and the *)
(* String variant of RuleContent.  ScopeContent and RuleContent are the    *)
(* records tagged Block / Rule / String.                                   *)

StringFragment(t) == [inner |-> t]
Selector(frags) == [fragments |-> frags]
StyleAttribute(k, v) == [key |-> k, value |-> v]
Block(c, a) == [type |-> "Block", condition |-> c, style_attributes |-> a]
Rule(c, b) == [type |-> "Rule", condition |-> c, content |-> b]
RuleString(t) == [type |-> "String", inner |-> t]

RECURSIVE Flatten(_)
Flatten(ss) == IF ss = <<>> THEN <<>> ELSE Head(ss) \o Flatten(Tail(ss))

----------------------------------------------------------------------------
(* Values, attributes, selectors *)

style_attr_key_ident(s, i) == trimmed("ident", s, i)
style_attr_key_cmt(s, i) == trim_cmt("style_attr_key_ident", s, i)
style_attr_key(s, i) == trimmed("style_attr_key_cmt", s, i)

ValueStop == {"$", "{", ";", "}", "/", "\""}

\* a value grammar without the placeholder alternative
style_attr_value_part_no_interpolation(s, i) ==
    LET a == is_not(ValueStop, s, i)
    IN  IF a.ok THEN a ELSE string(s, i)

style_attr_value_part(s, i) ==
    LET a == is_not(ValueStop, s, i)
    IN  IF a.ok THEN a
        ELSE LET b == interpolation(s, i)
             IN  IF b.ok THEN b ELSE string(s, i)

\* a value kept as written, outer whitespace included
style_attr_value_text_untrimmed(s, i) ==
    LET r == many1("style_attr_value_part", s, i)
    IN  IF ~r.ok THEN Err
        ELSE Ok(r.pos, StringFragment(Span(s, i, r.pos)))

style_attr_value_text(s, i) ==
    LET r == many1("style_attr_value_part", s, i)
    IN  IF ~r.ok THEN Err
        ELSE Ok(r.pos, StringFragment(trim(Span(s, i, r.pos))))

style_attr_value_inner(s, i) == trimmed("style_attr_value_text", s, i)
style_attr_value_cmt(s, i) == trim_cmt("style_attr_value_inner", s, i)
style_attr_value(s, i) == trimmed("style_attr_value_cmt", s, i)

\* separated_pair(style_attr_key, tag(":"), terminated(style_attr_value, tag(";")))
dangling_attribute_pair(s, i) ==
    LET k == style_attr_key(s, i)
    IN  IF ~k.ok THEN Err
        ELSE LET c == tag(<<":">>, s, k.pos)
             IN  IF ~c.ok THEN Err
                 ELSE LET v == style_attr_value(s, c.pos)
                      IN  IF ~v.ok THEN Err
                          ELSE LET e == tag(<<";">>, s, v.pos)
                               IN  IF ~e.ok THEN Err
                                   ELSE Ok(e.pos,
                                           StyleAttribute(trim(k.val), <<v.val>>))

dangling_attribute(s, i) ==
    IF ~expect_non_empty(s, i) THEN Err
    ELSE trimmed("dangling_attribute_pair", s, i)

\* separated_pair(style_attr_key, tag(":"), style_attr_value)
attribute_pair(s, i) ==
    LET k == style_attr_key(s, i)
    IN  IF ~k.ok THEN Err
        ELSE LET c == tag(<<":">>, s, k.pos)
             IN  IF ~c.ok THEN Err
                 ELSE LET v == style_attr_value(s, c.pos)
                      IN  IF ~v.ok THEN Err
                          ELSE Ok(v.pos, StyleAttribute(trim(k.val), <<v.val>>))

attribute(s, i) ==
    IF ~expect_non_empty(s, i) THEN Err
    ELSE trimmed("attribute_pair", s, i)

\* one declaration per dangling group
dangling_attributes_single(s, i) ==
    LET r == dangling_attribute(s, i)
    IN  IF ~r.ok THEN Err ELSE Ok(r.pos, <<r.val>>)

dangling_attributes_many(s, i) == many1("dangling_attribute", s, i)

dangling_attributes(s, i) ==
    IF ~expect_non_empty(s, i) THEN Err
    ELSE trimmed("dangling_attributes_many", s, i)

\* an attribute list of at least one attribute
attributes_list_many1(s, i) ==
    LET l == separated_list0(<<";">>, "attribute", s, i)
    IN  IF ~l.ok \/ l.val = <<>> THEN Err
        ELSE LET a == opt(sp(s, l.pos), l.pos).pos
             IN  Ok(opt(tag(<<";">>, s, a), a).pos, l.val)

\* an attribute list that takes no `;` after its last attribute
attributes_list_no_trailing(s, i) ==
    LET l == separated_list0(<<";">>, "attribute", s, i)
    IN  IF ~l.ok THEN Err
        ELSE Ok(opt(sp(s, l.pos), l.pos).pos, l.val)

\* terminated(separated_list0(tag(";"), attribute), preceded(opt(sp), opt(tag(";"))))
attributes_list(s, i) ==
    LET l == separated_list0(<<";">>, "attribute", s, i)
    IN  IF ~l.ok THEN Err
        ELSE LET a == opt(sp(s, l.pos), l.pos).pos
             IN  Ok(opt(tag(<<";">>, s, a), a).pos, l.val)

attributes(s, i) ==
    IF ~expect_non_empty(s, i) THEN Err
    ELSE trimmed("attributes_list", s, i)

SelectorFirstStop == {"$", ",", "}", "@", "{", "\""}
\* a selector that runs across commas
SelectorStopNoComma == {"$", "\"", "{"}

SelectorStop == {"$", ",", "\"", "{"}

selector_part(s, i) ==
    LET a == none_of(SelectorFirstStop, s, i)
    IN  IF a.ok THEN Ok(opt(is_not(SelectorStop, s, a.pos), a.pos).pos, <<>>)
        ELSE LET b == string(s, i)
             IN  IF b.ok THEN b ELSE interpolation(s, i)

selector_text(s, i) ==
    LET r == many1("selector_part", s, i)
    IN  IF ~r.ok THEN Err
        ELSE Ok(r.pos, Selector(<<StringFragment(trim(Span(s, i, r.pos)))>>))

selector(s, i) ==
    IF ~expect_non_empty(s, i) THEN Err
    ELSE trimmed("selector_text", s, i)

\* a selector with no comma taken after it
condition_entry_bare(s, i) == selector(s, i)

\* terminated(selector, opt(tag(",")))
condition_entry(s, i) ==
    LET r == selector(s, i)
    IN  IF ~r.ok THEN Err
        ELSE Ok(opt(tag(<<",">>, s, r.pos), r.pos).pos, r.val)

\* a selector list that may be empty
condition_many0(s, i) == many0("condition_entry", s, i)

condition_many(s, i) == many1("condition_entry", s, i)

condition(s, i) ==
    IF ~expect_non_empty(s, i) THEN Err
    ELSE trimmed("condition_many", s, i)

----------------------------------------------------------------------------
(* Blocks and rules *)

block_attributes(s, i) == trim_cmt("attributes", s, i)

block_pair(s, i) ==
    LET c == condition(s, i)
    IN  IF ~c.ok THEN Err
        ELSE LET o == tag(<<"{">>, s, c.pos)
             IN  IF ~o.ok THEN Err
                 ELSE LET a == block_attributes(s, o.pos)
                      IN  IF ~a.ok THEN Err
                          ELSE LET e == tag(<<"}">>, s, a.pos)
                               IN  IF ~e.ok THEN Err
                                   ELSE Ok(e.pos, Block(c.val, a.val))

block(s, i) ==
    IF ~expect_non_empty(s, i) THEN Err ELSE trimmed("block_pair", s, i)

rule_string_text(s, i) ==
    LET r == is_not({"{", "}"}, s, i)
    IN  IF ~r.ok THEN Err ELSE Ok(r.pos, <<RuleString(trim(r.val))>>)

rule_string(s, i) ==
    IF ~expect_non_empty(s, i) THEN Err ELSE trimmed("rule_string_text", s, i)

rule_curly_braces_delimited(s, i) ==
    LET o == tag(<<"{">>, s, i)
    IN  IF ~o.ok THEN Err
        ELSE LET c == apply("rule_contents", s, o.pos)
             IN  IF ~c.ok THEN Err
                 ELSE LET e == tag(<<"}">>, s, c.pos)
                      IN  IF ~e.ok THEN Err
                          ELSE Ok(e.pos,
                                  <<RuleString(<<"{">>)>> \o c.val
                                      \o <<RuleString(<<"}">>)>>)

rule_curly_braces(s, i) ==
    IF ~expect_non_empty(s, i) THEN Err
    ELSE trimmed("rule_curly_braces_delimited", s, i)

string_or_curlies(s, i) ==
    LET a == rule_curly_braces(s, i)
    IN  IF a.ok THEN a ELSE rule_string(s, i)

rule_contents(s, i) ==
    IF ~expect_non_empty(s, i) THEN Err
    ELSE LET r == many0("string_or_curlies", s, i)
         IN  IF ~r.ok THEN Err ELSE Ok(r.pos, Flatten(r.val))

StartsWith(t, p) == Len(t) >= Len(p) /\ SubSeq(t, 1, Len(p)) = p

AtMedia == <<"@", "m", "e", "d", "i", "a">>
AtSupports == <<"@", "s", "u", "p", "p", "o", "r", "t", "s">>

\* the opaque at-rule without the check of its name
rule_pair_any_name(s, i) ==
    LET a == tag(<<"@">>, s, i)
    IN  IF ~a.ok THEN Err
        ELSE LET n == is_not({"{"}, s, a.pos)
             IN  IF ~n.ok THEN Err
                 ELSE LET o == tag(<<"{">>, s, n.pos)
                      IN  IF ~o.ok THEN Err
                          ELSE LET c == apply("rule_contents", s, o.pos)
                               IN  IF ~c.ok THEN Err
                                   ELSE LET w == opt(sp(s, c.pos), c.pos).pos
                                            e == tag(<<"}">>, s, w)
                                            name == Span(s, i, n.pos)
                                        IN  IF ~e.ok THEN Err
                                            ELSE Ok(e.pos,
                                                    Rule(<<StringFragment(trim(name))>>,
                                                         c.val))

\* map_res(separated_pair(recognize(preceded(tag("@"), is_not("{"))), tag("{"),
\*     terminated(terminated(rule_contents, opt(sp)), tag("}"))), ...)
rule_pair(s, i) ==
    LET a == tag(<<"@">>, s, i)
    IN  IF ~a.ok THEN Err
        ELSE LET n == is_not({"{"}, s, a.pos)
             IN  IF ~n.ok THEN Err
                 ELSE LET o == tag(<<"{">>, s, n.pos)
                      IN  IF ~o.ok THEN Err
                          ELSE LET c == apply("rule_contents", s, o.pos)
                               IN  IF ~c.ok THEN Err
                                   ELSE LET w == opt(sp(s, c.pos), c.pos).pos
                                            e == tag(<<"}">>, s, w)
                                            name == Span(s, i, n.pos)
                                        IN  IF ~e.ok THEN Err
                                            ELSE IF StartsWith(name, AtMedia) THEN Err
                                            ELSE IF StartsWith(name, AtSupports) THEN Err
                                            ELSE Ok(e.pos,
                                                    Rule(<<StringFragment(trim(name))>>,
                                                         c.val))

rule(s, i) ==
    IF ~expect_non_empty(s, i) THEN Err ELSE trimmed("rule_pair", s, i)

dangling_block_map(s, i) ==
    LET r == dangling_attributes(s, i)
    IN  IF ~r.ok THEN Err ELSE Ok(r.pos, Block(<<>>, r.val))

dangling_block(s, i) ==
    IF ~expect_non_empty(s, i) THEN Err ELSE trimmed("dangling_block_map", s, i)

AtMediaTag == <<"@", "m", "e", "d", "i", "a", " ">>
AtSupportsTag == <<"@", "s", "u", "p", "p", "o", "r", "t", "s", " ">>

at_rule_condition_part(s, i) ==
    LET a == is_not({"$", "{"}, s, i)
    IN  IF a.ok THEN a ELSE interpolation(s, i)

\* the prelude kept as written, whitespace included
at_rule_condition_pair_untrimmed(s, i) ==
    LET a == tag(AtSupportsTag, s, i)
        p == IF a.ok THEN a ELSE tag(AtMediaTag, s, i)
    IN  IF ~p.ok THEN Err
        ELSE LET m == many1("at_rule_condition_part", s, p.pos)
             IN  IF ~m.ok THEN Err
                 ELSE Ok(m.pos, <<StringFragment(p.val),
                                  StringFragment(Span(s, p.pos, m.pos))>>)

at_rule_condition_pair(s, i) ==
    LET a == tag(AtSupportsTag, s, i)
        p == IF a.ok THEN a ELSE tag(AtMediaTag, s, i)
    IN  IF ~p.ok THEN Err
        ELSE LET m == many1("at_rule_condition_part", s, p.pos)
             IN  IF ~m.ok THEN Err
                 ELSE Ok(m.pos, <<StringFragment(p.val),
                                  StringFragment(trim(Span(s, p.pos, m.pos)))>>)

at_rule_condition(s, i) ==
    IF ~expect_non_empty(s, i) THEN Err
    ELSE trimmed("at_rule_condition_pair", s, i)

\* ScopeContent -> RuleContent: Block to Block, Rule to Rule
RuleContentFrom(c) ==
    IF c.type = "Block" THEN Block(c.condition, c.style_attributes)
    ELSE Rule(c.condition, c.content)

IntoRuleContents(items) ==
    [k \in 1 .. Len(items) |-> RuleContentFrom(items[k])]

\* a body of exactly one item
at_rule_pair_one_item(s, i) ==
    LET c == at_rule_condition(s, i)
    IN  IF ~c.ok THEN Err
        ELSE LET o == tag(<<"{">>, s, c.pos)
             IN  IF ~o.ok THEN Err
                 ELSE LET b == apply("scope_content", s, o.pos)
                      IN  IF ~b.ok THEN Err
                          ELSE LET e == tag(<<"}">>, s, b.pos)
                               IN  IF ~e.ok THEN Err
                                   ELSE Ok(e.pos, Rule(c.val,
                                               IntoRuleContents(<<b.val>>)))

at_rule_pair(s, i) ==
    LET c == at_rule_condition(s, i)
    IN  IF ~c.ok THEN Err
        ELSE LET o == tag(<<"{">>, s, c.pos)
             IN  IF ~o.ok THEN Err
                 ELSE LET b == apply("scope_contents", s, o.pos)
                      IN  IF ~b.ok THEN Err
                          ELSE LET e == tag(<<"}">>, s, b.pos)
                               IN  IF ~e.ok THEN Err
                                   ELSE Ok(e.pos, Rule(c.val,
                                               IntoRuleContents(b.val)))

at_rule(s, i) ==
    IF ~expect_non_empty(s, i) THEN Err ELSE trimmed("at_rule_pair", s, i)

\* the alternatives with the qualified block tried first
scope_content_block_first(s, i) ==
    LET b == block(s, i)
    IN  IF b.ok THEN b
        ELSE LET a == dangling_block(s, i)
             IN  IF a.ok THEN a
                 ELSE LET c == at_rule(s, i)
                      IN  IF c.ok THEN c ELSE rule(s, i)

\* alt((dangling_block, block, at_rule, rule))
scope_content(s, i) ==
    LET a == dangling_block(s, i)
    IN  IF a.ok THEN a
        ELSE LET b == block(s, i)
             IN  IF b.ok THEN b
                 ELSE LET c == at_rule(s, i)
                      IN  IF c.ok THEN c ELSE rule(s, i)

scope_contents_many(s, i) == many0("scope_content", s, i)

scope_contents(s, i) ==
    IF ~expect_non_empty(s, i) THEN Err
    ELSE trimmed("scope_contents_many", s, i)

scope(s, i) ==
    IF ~expect_non_empty(s, i) THEN Err ELSE trimmed("scope_contents", s, i)

\* the scope grammar applied once instead of until the input is exhausted
sheet_scopes_once(s, i) ==
    LET r == scope(s, i)
    IN  IF ~r.ok THEN Ok(i, <<>>) ELSE Ok(r.pos, r.val)

\* a sheet that requires at least one scope
sheet_scopes_many1(s, i) ==
    LET r == many1("scope", s, i)
    IN  IF ~r.ok THEN Err ELSE Ok(r.pos, Flatten(r.val))

sheet_scopes(s, i) ==
    LET r == many0("scope", s, i)
    IN  IF ~r.ok THEN Err ELSE Ok(r.pos, Flatten(r.val))

sheet(s, i) == trimmed("sheet_scopes", s, i)

\* the grammar rule named P
apply(P, s, i) ==
    CASE P = "at_rule_condition_pair" -> at_rule_condition_pair(s, i)
        [] P = "at_rule_condition_part" -> at_rule_condition_part(s, i)
        [] P = "at_rule_pair" -> at_rule_pair(s, i)
        [] P = "attribute" -> attribute(s, i)
        [] P = "attribute_pair" -> attribute_pair(s, i)
        [] P = "attributes" -> attributes(s, i)
        [] P = "attributes_list" -> attributes_list(s, i)
        [] P = "block_pair" -> block_pair(s, i)
        [] P = "cmt_delimited" -> cmt_delimited(s, i)
        [] P = "condition_entry" -> condition_entry(s, i)
        [] P = "condition_many" -> condition_many(s, i)
        [] P = "dangling_attribute" -> dangling_attribute(s, i)
        [] P = "dangling_attribute_pair" -> dangling_attribute_pair(s, i)
        [] P = "dangling_attributes_many" -> dangling_attributes_many(s, i)
        [] P = "dangling_block_map" -> dangling_block_map(s, i)
        [] P = "ident" -> ident(s, i)
        [] P = "interpolation_delimited" -> interpolation_delimited(s, i)
        [] P = "interpolation_name" -> interpolation_name(s, i)
        [] P = "parse_str" -> parse_str(s, i)
        [] P = "rule_contents" -> rule_contents(s, i)
        [] P = "rule_curly_braces_delimited" -> rule_curly_braces_delimited(s, i)
        [] P = "rule_pair" -> rule_pair(s, i)
        [] P = "rule_string_text" -> rule_string_text(s, i)
        [] P = "scope" -> scope(s, i)
        [] P = "scope_content" -> scope_content(s, i)
        [] P = "scope_contents" -> scope_contents(s, i)
        [] P = "scope_contents_many" -> scope_contents_many(s, i)
        [] P = "selector_part" -> selector_part(s, i)
        [] P = "selector_text" -> selector_text(s, i)
        [] P = "sheet_scopes" -> sheet_scopes(s, i)
        [] P = "string_or_curlies" -> string_or_curlies(s, i)
        [] P = "style_attr_key_cmt" -> style_attr_key_cmt(s, i)
        [] P = "style_attr_key_ident" -> style_attr_key_ident(s, i)
        [] P = "style_attr_value_cmt" -> style_attr_value_cmt(s, i)
        [] P = "style_attr_value_inner" -> style_attr_value_inner(s, i)
        [] P = "style_attr_value_part" -> style_attr_value_part(s, i)
        [] P = "style_attr_value_text" -> style_attr_value_text(s, i)

\* the match in Parser::parse: Ok((_, res)) => Ok(res), any Err => Err
parse_result(r) ==
    IF r.ok THEN [ok |-> TRUE, sheet |-> r.val]
    ELSE [ok |-> FALSE, sheet |-> <<>>]

parse(css) == parse_result(sheet(css, 1))

----------------------------------------------------------------------------
(* The call depth of the two recursive rules.  scope_contents is entered  *)
(* again from at_rule, rule_contents from rule and from rule_curly_braces; *)
(* each of the operators below returns how many activations of these two   *)
(* rules are nested at most while the rule of its name runs on s at i.     *)

Max(S) == IF S = {} THEN 0 ELSE CHOOSE x \in S : \A y \in S : y <= x

\* the positions at which many0(P) applies P, the last, failing one included
RECURSIVE ManyStarts(_, _, _)
ManyStarts(P, s, i) ==
    LET r == apply(P, s, i)
    IN  IF ~r.ok \/ r.pos <= i THEN {i}
        ELSE {i} \cup ManyStarts(P, s, r.pos)

RECURSIVE rule_contents_depth(_, _)
\* delimited(tag("{"), rule_contents, tag("}")) under trimmed
rule_curly_braces_depth(s, i) ==
    IF ~expect_non_empty(s, i) THEN 0
    ELSE LET o == tag(<<"{">>, s, opt(sp(s, i), i).pos)
         IN  IF ~o.ok THEN 0 ELSE rule_contents_depth(s, o.pos)

\* many0(alt((rule_curly_braces, rule_string)))
rule_contents_depth(s, i) ==
    IF ~expect_non_empty(s, i) THEN 1
    ELSE 1 + Max({ rule_curly_braces_depth(s, j) :
                       j \in ManyStarts("string_or_curlies", s, i) })

\* recognize(preceded(tag("@"), is_not("{"))), tag("{"), rule_contents
rule_depth(s, i) ==
    IF ~expect_non_empty(s, i) THEN 0
    ELSE LET a == tag(<<"@">>, s, opt(sp(s, i), i).pos)
         IN  IF ~a.ok THEN 0
             ELSE LET n == is_not({"{"}, s, a.pos)
                  IN  IF ~n.ok THEN 0
                      ELSE LET o == tag(<<"{">>, s, n.pos)
                           IN  IF ~o.ok THEN 0
                               ELSE rule_contents_depth(s, o.pos)

RECURSIVE scope_contents_depth(_, _)
\* at_rule_condition, tag("{"), scope_contents
at_rule_depth(s, i) ==
    IF ~expect_non_empty(s, i) THEN 0
    ELSE LET c == at_rule_condition(s, opt(sp(s, i), i).pos)
         IN  IF ~c.ok THEN 0
             ELSE LET o == tag(<<"{">>, s, c.pos)
                  IN  IF ~o.ok THEN 0
                      ELSE scope_contents_depth(s, o.pos)

\* alt((dangling_block, block, at_rule, rule)): a later alternative runs
\* when the earlier ones failed
scope_content_depth(s, i) ==
    IF dangling_block(s, i).ok \/ block(s, i).ok THEN 0
    ELSE IF at_rule(s, i).ok THEN at_rule_depth(s, i)
    ELSE Max({at_rule_depth(s, i), rule_depth(s, i)})

scope_contents_depth(s, i) ==
    IF ~expect_non_empty(s, i) THEN 1
    ELSE 1 + Max({ scope_content_depth(s, j) :
                       j \in ManyStarts("scope_content", s, opt(sp(s, i), i).pos) })

scope_depth(s, i) ==
    IF ~expect_non_empty(s, i) THEN 0
    ELSE scope_contents_depth(s, opt(sp(s, i), i).pos)

\* Parser::sheet: the activations nested inside the outermost
\* scope_contents, which many0(scope) enters at nesting depth zero
sheet_depth(s) ==
    Max({ scope_depth(s, j) :
              j \in ManyStarts("scope", s, opt(sp(s, 1), 1).pos) }) - 1

----------------------------------------------------------------------------------------------------------------------------------------
(* The parser under test: a source text is assembled from pieces, may be   *)
(* enclosed in braces or in an at-rule, and is parsed; a text that parsed  *)
(* may be nested in `@media c{ }` and parsed again.                        *)

MaxPieces == 5
MaxAtPieces == 4
MaxDepth == 2

Decl == <<"a", ":", "b", ";">>
Placeholder == <<"$", "{", "v", "}">>
OpaqueName == <<"@", "x">>
MediaHead == AtMediaTag \o <<"c", "{">>
SupportsHead == AtSupportsTag \o <<"c", " ", "{">>
OpaqueHead == OpaqueName \o <<"{">>

\* the pieces of the block grammar and of the at-rule grammar
BlockPieces == { Decl, <<"c">>, <<"{">>, <<"}">>, <<",">>, <<" ">>,
                 AtMediaTag, OpaqueName, Placeholder }
AtRulePieces == { Decl, <<"c">>, <<"{">>, <<"}">>, <<" ">>,
                  AtMediaTag, OpaqueName }
Heads == { <<"{">>, OpaqueHead, SupportsHead }

\* the contents of a quoted string: the characters that end a selector, a
\* value or a block outside a string, and an escaped quote
MaxStringPieces == 3
StringPieces == { <<"{">>, <<"}">>, <<";">>, <<"@">>, <<"$">>, <<",">>,
                  <<"\\", "\"">>, <<"x">>, <<" ">> }

\* a frame puts the typed text at a place of the grammar: `lead` and
\* `trail` are the parts of the frame that belong to the same fragment
StringFrames ==
    { [kind |-> "selector", pre |-> <<"c", "\"">>, post |-> <<"\"", "{", "}">>,
       lead |-> <<"c", "\"">>, trail |-> <<"\"">>],
      [kind |-> "dangling", pre |-> <<"a", ":", "\"">>, post |-> <<"\"", ";">>,
       lead |-> <<"\"">>, trail |-> <<"\"">>],
      [kind |-> "dangling", pre |-> <<"a", ":", "b", "\"">>,
       post |-> <<"\"", "c", ";">>,
       lead |-> <<"b", "\"">>, trail |-> <<"\"", "c">>],
      [kind |-> "block", pre |-> <<"c", "{", "a", ":", "\"">>,
       post |-> <<"\"", "}">>,
       lead |-> <<"\"">>, trail |-> <<"\"">>] }

\* the body of an opaque at-rule: braces, and braces inside quoted strings
MaxOpaquePieces == 4
QuotedOpen == <<"\"", "{", "\"">>
QuotedClose == <<"\"", "}", "\"">>
OpaquePieces == { <<"k", ":">>, <<";">>, <<"{">>, <<"}">>,
                  QuotedOpen, QuotedClose }
OpaqueFrames ==
    { [kind |-> "opaque", pre |-> OpaqueHead, post |-> <<"}">>,
       lead |-> <<>>, trail |-> <<>>] }

\* the text of an attribute value: literal characters and placeholders
MaxValuePieces == 4
ValuePieces == { <<"b">>, <<"1">>, <<" ">>, <<"/">>, Placeholder }
ValueFrames ==
    { [kind |-> "dangling", pre |-> <<"a", ":">>, post |-> <<";">>,
       lead |-> <<>>, trail |-> <<>>],
      [kind |-> "block", pre |-> <<"c", "{", "a", ":">>, post |-> <<"}">>,
       lead |-> <<>>, trail |-> <<>>] }

\* texts with constructs left open: a quote, a brace, the start of a
\* placeholder, at the top level and in the three kinds of body
MaxOpenPieces == 3
OpenPieces == { <<"\"">>, <<"{">>, <<"}">>, <<"$", "{">>, <<"v">>,
                <<"a", ":">>, <<";">> }
OpenFrames ==
    { [kind |-> "top", pre |-> <<>>, post |-> <<>>,
       lead |-> <<>>, trail |-> <<>>],
      [kind |-> "block", pre |-> <<"c", "{">>, post |-> <<"}">>,
       lead |-> <<>>, trail |-> <<>>],
      [kind |-> "atrule", pre |-> MediaHead, post |-> <<"}">>,
       lead |-> <<>>, trail |-> <<>>],
      [kind |-> "opaque", pre |-> OpaqueHead, post |-> <<"}">>,
       lead |-> <<>>, trail |-> <<>>] }

\* what stands between `${` and `}`
MaxNamePieces == 4
NamePieces == { <<"v">>, <<"_">>, <<"1">>, <<"U+00E9">>, <<" ">> }
NameFrames ==
    { [kind |-> "dangling", pre |-> <<"a", ":", "$", "{">>,
       post |-> <<"}", ";">>, lead |-> <<"$", "{">>, trail |-> <<"}">>] }

\* a declaration with comments between its tokens, at the top level, in a
\* block and in an at-rule, and comments around a selector, a block and an
\* at-rule
MaxCommentPieces == 5
Comment == <<"/", "*", "x", "*", "/">>
CommentWithStar == <<"/", "*", "*", "x", "*", "/">>
CommentPieces == { Comment, <<"a">>, <<":">>, <<"b">>, <<";">> }
CommentFrames ==
    { [kind |-> "top", pre |-> <<>>, post |-> <<>>,
       lead |-> <<>>, trail |-> <<>>],
      [kind |-> "block", pre |-> <<"c", "{">>, post |-> <<"}">>,
       lead |-> <<>>, trail |-> <<>>],
      [kind |-> "block", pre |-> CommentWithStar \o <<"c", "{">>,
       post |-> <<"}">>, lead |-> <<>>, trail |-> <<>>],
      [kind |-> "block", pre |-> <<"c">> \o Comment \o <<"{">>,
       post |-> <<"}">>, lead |-> <<>>, trail |-> <<>>],
      [kind |-> "block", pre |-> <<"c", "{">>,
       post |-> <<"}">> \o Comment, lead |-> <<>>, trail |-> <<>>],
      [kind |-> "atrule", pre |-> Comment \o MediaHead, post |-> <<"}">>,
       lead |-> <<>>, trail |-> <<>>],
      [kind |-> "atrule", pre |-> MediaHead,
       post |-> <<"}">> \o CommentWithStar, lead |-> <<>>, trail |-> <<>>] }

\* a word and the four whitespace characters, put where a key, a value, a
\* selector, an at-rule prelude, an at-rule name and an opaque item stand
MaxTrimPieces == 5
TrimPieces == { <<"b">>, <<" ">>, <<"\t">>, <<"\r">>, <<"\n">> }
TrimFrames ==
    { [kind |-> "key", pre |-> <<>>, post |-> <<":", "b", ";">>,
       lead |-> <<>>, trail |-> <<>>],
      [kind |-> "dangling", pre |-> <<"a", ":">>, post |-> <<";">>,
       lead |-> <<>>, trail |-> <<>>],
      [kind |-> "block", pre |-> <<"c", "{", "a", ":">>, post |-> <<"}">>,
       lead |-> <<>>, trail |-> <<>>],
      [kind |-> "selector", pre |-> <<"c">>, post |-> <<"{", "}">>,
       lead |-> <<"c">>, trail |-> <<>>],
      [kind |-> "prelude", pre |-> AtMediaTag, post |-> <<"{", "}">>,
       lead |-> <<>>, trail |-> <<>>],
      [kind |-> "name", pre |-> OpaqueName, post |-> <<"{", "}">>,
       lead |-> OpaqueName, trail |-> <<>>],
      [kind |-> "item", pre |-> OpaqueHead, post |-> <<"}">>,
       lead |-> <<>>, trail |-> <<>>] }

\* the attribute list of a qualified block: attributes, separators and
\* spaces, under several selector lists, at the top level and in an at-rule
MaxListPieces == 5
DeclPlain == <<"a", ":", "b">>
DeclPlaceholder == <<"a", ":">> \o Placeholder
ListPieces == { DeclPlain, DeclPlaceholder, <<";">>, <<" ">> }
ListFrames ==
    { [kind |-> "block", pre |-> <<"c", "{">>, post |-> <<"}">>,
       lead |-> <<>>, trail |-> <<>>],
      [kind |-> "block", pre |-> <<"c", ",", "d", "{">>, post |-> <<"}">>,
       lead |-> <<>>, trail |-> <<>>],
      [kind |-> "block", pre |-> <<"c", " ", "d", " ", "{">>, post |-> <<"}">>,
       lead |-> <<>>, trail |-> <<>>],
      [kind |-> "atrule", pre |-> MediaHead \o <<"c", "{">>,
       post |-> <<"}", "}">>, lead |-> <<>>, trail |-> <<>>] }

\* braces, at-rule heads and a word: nested rules and nested braces, with
\* a closing brace where a prelude takes it as text
MaxNestPieces == 4
NestPieces == { <<"{">>, <<"}">>, AtMediaTag, OpaqueName, <<"c">>, Decl }
NestFrames ==
    { [kind |-> "top", pre |-> <<>>, post |-> <<>>,
       lead |-> <<>>, trail |-> <<>>],
      [kind |-> "atrule", pre |-> MediaHead, post |-> <<"}">>,
       lead |-> <<>>, trail |-> <<>>],
      [kind |-> "opaque", pre |-> OpaqueHead, post |-> <<"}">>,
       lead |-> <<>>, trail |-> <<>>] }

\* selector lists: two words, the comma and the blank, put before a block
\* body
MaxCommaPieces == 5
CommaPieces == { <<"c">>, <<"d">>, <<",">>, <<" ">> }
CommaFrames ==
    { [kind |-> "list", pre |-> <<>>, post |-> <<"{">> \o Decl \o <<"}">>,
       lead |-> <<>>, trail |-> <<>>] }

Pieces(m) ==
    CASE m = "block" -> BlockPieces
      [] m = "atrule" -> AtRulePieces
      [] m = "string" -> StringPieces
      [] m = "opaque" -> OpaquePieces
      [] m = "value" -> ValuePieces
      [] m = "open" -> OpenPieces
      [] m = "name" -> NamePieces
      [] m = "comment" -> CommentPieces
      [] m = "trim" -> TrimPieces
      [] m = "list" -> ListPieces
      [] m = "nest" -> NestPieces
      [] m = "commas" -> CommaPieces

PieceBound(m) ==
    CASE m = "block" -> MaxPieces
      [] m = "atrule" -> MaxAtPieces
      [] m = "string" -> MaxStringPieces
      [] m = "opaque" -> MaxOpaquePieces
      [] m = "value" -> MaxValuePieces
      [] m = "open" -> MaxOpenPieces
      [] m = "name" -> MaxNamePieces
      [] m = "comment" -> MaxCommentPieces
      [] m = "trim" -> MaxTrimPieces
      [] m = "list" -> MaxListPieces
      [] m = "nest" -> MaxNestPieces
      [] m = "commas" -> MaxCommaPieces

Frames(m) ==
    CASE m = "string" -> StringFrames
      [] m = "opaque" -> OpaqueFrames
      [] m = "value" -> ValueFrames
      [] m = "open" -> OpenFrames
      [] m = "name" -> NameFrames
      [] m = "comment" -> CommentFrames
      [] m = "trim" -> TrimFrames
      [] m = "list" -> ListFrames
      [] m = "nest" -> NestFrames
      [] m = "commas" -> CommaFrames

NoResult == [ok |-> FALSE, pos |-> 0, val |-> <<>>]
NoSheet == [ok |-> FALSE, sheet |-> <<>>]
NoThread == 0
NoText == <<"\\0">>

CacheIdle ==
    /\ cache = <<>> /\ lock = NoThread /\ pc = <<>> /\ req = <<>>
    /\ ret = <<>> /\ hit = <<>> /\ parses = <<>> /\ calls = <<>>

\* no registry operation, no macro expansion and no context yet
NoOp == [name |-> "none"]
NoExpansion ==
    [phase |-> "idle", text |-> <<>>, tokens |-> <<>>, supplied |-> 0,
     outcome |-> "none"]
LibIdle ==
    /\ styles = {} /\ regop = NoOp /\ expansion = NoExpansion
    /\ usage = <<>> /\ dynamic = <<>> /\ answer = <<>>

ParserIdle ==
    /\ src = <<>> /\ npieces = 0 /\ depth = 0 /\ phase = "edit"
    /\ out = NoResult /\ res = NoSheet /\ inner = <<>>

InitParser == mode = "block" /\ ParserIdle /\ CacheIdle /\ LibIdle

InitAtRule == mode = "atrule" /\ ParserIdle /\ CacheIdle /\ LibIdle

Type(p) ==
    /\ phase = "edit"
    /\ depth = 0
    /\ npieces < PieceBound(mode)
    /\ src' = src \o p
    /\ npieces' = npieces + 1
    /\ UNCHANGED <<mode, depth, phase, out, res, inner>>
    /\ UNCHANGED cacheVars
    /\ UNCHANGED libVars

Enclose(h) ==
    /\ phase = "edit"
    /\ depth < MaxDepth
    /\ src' = h \o src \o <<"}">>
    /\ depth' = depth + 1
    /\ UNCHANGED <<mode, npieces, phase, out, res, inner>>
    /\ UNCHANGED cacheVars
    /\ UNCHANGED libVars

Frame(f) ==
    /\ phase = "edit"
    /\ depth = 0
    /\ src' = f.pre \o src \o f.post
    /\ depth' = 1
    /\ UNCHANGED <<mode, npieces, phase, out, res, inner>>
    /\ UNCHANGED cacheVars
    /\ UNCHANGED libVars

Parse ==
    /\ phase = "edit"
    /\ phase' = "parsed"
    /\ out' = sheet(src, 1)
    /\ res' = parse_result(out')
    /\ UNCHANGED <<mode, src, npieces, depth, inner>>
    /\ UNCHANGED cacheVars
    /\ UNCHANGED libVars

Nest ==
    /\ phase = "parsed"
    /\ res.ok
    /\ depth < MaxDepth
    /\ src' = MediaHead \o src \o <<"}">>
    /\ inner' = res.sheet
    /\ depth' = depth + 1
    /\ phase' = "edit"
    /\ out' = NoResult
    /\ res' = NoSheet
    /\ UNCHANGED <<mode, npieces>>
    /\ UNCHANGED cacheVars
    /\ UNCHANGED libVars

NextParser ==
    \/ \E p \in Pieces(mode) : Type(p)
    \/ Parse
    \/ Nest

NextAtRule ==
    \/ \E p \in Pieces(mode) : Type(p)
    \/ \E h \in Heads : Enclose(h)
    \/ Parse
    \/ Nest

Spec == InitParser /\ [][NextParser]_vars

SpecAtRule == InitAtRule /\ [][NextAtRule]_vars

\* a text typed from the pieces of the mode, put into a frame, and parsed
NextFramed ==
    \/ \E p \in Pieces(mode) : Type(p)
    \/ \E f \in Frames(mode) : Frame(f)
    \/ Parse

InitString == mode = "string" /\ ParserIdle /\ CacheIdle /\ LibIdle

SpecString == InitString /\ [][NextFramed]_vars

InitOpaque == mode = "opaque" /\ ParserIdle /\ CacheIdle /\ LibIdle

SpecOpaque == InitOpaque /\ [][NextFramed]_vars

InitValue == mode = "value" /\ ParserIdle /\ CacheIdle /\ LibIdle

SpecValue == InitValue /\ [][NextFramed]_vars

InitOpen == mode = "open" /\ ParserIdle /\ CacheIdle /\ LibIdle

SpecOpen == InitOpen /\ [][NextFramed]_vars

InitName == mode = "name" /\ ParserIdle /\ CacheIdle /\ LibIdle

SpecName == InitName /\ [][NextFramed]_vars

InitComment == mode = "comment" /\ ParserIdle /\ CacheIdle /\ LibIdle

SpecComment == InitComment /\ [][NextFramed]_vars

InitTrim == mode = "trim" /\ ParserIdle /\ CacheIdle /\ LibIdle

SpecTrim == InitTrim /\ [][NextFramed]_vars

InitList == mode = "list" /\ ParserIdle /\ CacheIdle /\ LibIdle

SpecList == InitList /\ [][NextFramed]_vars

InitNest == mode = "nest" /\ ParserIdle /\ CacheIdle /\ LibIdle

SpecNest == InitNest /\ [][NextFramed]_vars

InitCommas == mode = "commas" /\ ParserIdle /\ CacheIdle /\ LibIdle

SpecCommas == InitCommas /\ [][NextFramed]_vars

----------------
(* The parse cache: a process-wide table from source text to Sheet behind  *)
(* one mutex.  A caller locks, looks its text up, and on a miss parses and *)
(* inserts before it unlocks; a failed parse returns early and stores      *)
(* nothing.                                                                *)

NThreads == 2
MaxCalls == 2

Threads == 1 .. NThreads

BlockSpaced == <<"c", " ", "d", "{", "}">>
BlockJoined == <<"c", "d", "{", "}">>
Unbalanced == <<"c", "{">>

CacheTexts == { Decl, <<" ">> \o Decl, BlockSpaced, BlockJoined, Unbalanced }

\* a key that drops whitespace, as a normalising cache would
RECURSIVE CacheKeyNormalised(_)
CacheKeyNormalised(x) ==
    IF x = <<>> THEN <<>>
    ELSE IF Head(x) \in Whitespace THEN CacheKeyNormalised(Tail(x))
    ELSE <<Head(x)>> \o CacheKeyNormalised(Tail(x))

\* the cache key of a source text: the exact string
CacheKey(x) == x

Cached(x) == CacheKey(x) \in DOMAIN cache

InitCache ==
    /\ cache = <<>>
    /\ lock = NoThread
    /\ pc = [t \in Threads |-> "idle"]
    /\ req = [t \in Threads |-> NoText]
    /\ ret = [t \in Threads |-> NoSheet]
    /\ hit = [t \in Threads |-> NoText]
    /\ parses = [x \in CacheTexts |-> 0]
    /\ calls = [t \in Threads |-> 0]
    /\ mode = "cache"
    /\ ParserIdle
    /\ LibIdle

\* a caller enters the cached parse with its text and waits for the mutex
Call(t, x) ==
    /\ pc[t] = "idle"
    /\ calls[t] < MaxCalls
    /\ calls' = [calls EXCEPT ![t] = @ + 1]
    /\ req' = [req EXCEPT ![t] = x]
    /\ ret' = [ret EXCEPT ![t] = NoSheet]
    /\ hit' = [hit EXCEPT ![t] = NoText]
    /\ pc' = [pc EXCEPT ![t] = "lock"]
    /\ UNCHANGED <<cache, lock, parses>>
    /\ UNCHANGED parserVars
    /\ UNCHANGED libVars

\* the lock taken without waiting for its holder to release it
AcquireUnguarded(t) ==
    /\ pc[t] = "lock"
    /\ lock' = t
    /\ pc' = [pc EXCEPT ![t] = "lookup"]
    /\ UNCHANGED <<cache, req, ret, hit, parses, calls>>
    /\ UNCHANGED parserVars
    /\ UNCHANGED libVars

Acquire(t) ==
    /\ pc[t] = "lock"
    /\ lock = NoThread
    /\ lock' = t
    /\ pc' = [pc EXCEPT ![t] = "lookup"]
    /\ UNCHANGED <<cache, req, ret, hit, parses, calls>>
    /\ UNCHANGED parserVars
    /\ UNCHANGED libVars

\* a hit returns a copy of the stored Sheet; a miss goes on to parse
Lookup(t) ==
    /\ pc[t] = "lookup"
    /\ IF Cached(req[t])
       THEN /\ ret' = [ret EXCEPT ![t] =
                          [ok |-> TRUE, sheet |-> cache[CacheKey(req[t])]]]
            /\ hit' = [hit EXCEPT ![t] = CacheKey(req[t])]
            /\ pc' = [pc EXCEPT ![t] = "unlock"]
       ELSE /\ pc' = [pc EXCEPT ![t] = "parse"]
            /\ UNCHANGED <<ret, hit>>
    /\ UNCHANGED <<cache, lock, req, parses, calls>>
    /\ UNCHANGED parserVars
    /\ UNCHANGED libVars

\* a cache that stores whatever the parser returned
AfterParseAlwaysInsert(r) == "insert"

\* where a caller goes after the parser returned r: an Err returns early
AfterParse(r) == IF r.ok THEN "insert" ELSE "unlock"

RunParser(t) ==
    /\ pc[t] = "parse"
    /\ LET r == parse(req[t])
       IN  /\ ret' = [ret EXCEPT ![t] = r]
           /\ pc' = [pc EXCEPT ![t] = AfterParse(r)]
    /\ parses' = [parses EXCEPT ![req[t]] = @ + 1]
    /\ UNCHANGED <<cache, lock, req, hit, calls>>
    /\ UNCHANGED parserVars
    /\ UNCHANGED libVars

Insert(t) ==
    /\ pc[t] = "insert"
    /\ cache' = (CacheKey(req[t]) :> ret[t].sheet) @@ cache
    /\ pc' = [pc EXCEPT ![t] = "unlock"]
    /\ UNCHANGED <<lock, req, ret, hit, parses, calls>>
    /\ UNCHANGED parserVars
    /\ UNCHANGED libVars

Release(t) ==
    /\ pc[t] = "unlock"
    /\ lock' = NoThread
    /\ pc' = [pc EXCEPT ![t] = "idle"]
    /\ UNCHANGED <<cache, req, ret, hit, parses, calls>>
    /\ UNCHANGED parserVars
    /\ UNCHANGED libVars

NextCache ==
    \/ \E t \in Threads, x \in CacheTexts : Call(t, x)
    \/ \E t \in Threads : Acquire(t)
    \/ \E t \in Threads : Lookup(t)
    \/ \E t \in Threads : RunParser(t)
    \/ \E t \in Threads : Insert(t)
    \/ \E t \in Threads : Release(t)

SpecCache == InitCache /\ [][NextCache]_vars

----------------------------------------------------------------------------
(* The style registry (packages/stylist/src/registry.rs): a HashMap from   *)
(* StyleKey to Style.  A Style carries its key and the unique identifier   *)
(* it was given; a panic unwinds out of register and leaves the registry   *)
(* as the call left it.                                                    *)

NStyles == 2

Prefixes == {"stylist", "element"}
RegistrySheets == {parse(Decl).sheet, parse(BlockJoined).sheet}

\* StyleKey(prefix, sheet), compared by prefix and by the sheet's structure
StyleKey(p, sh) == [prefix |-> p, sheet |-> sh]
StyleKeys == {StyleKey(p, sh) : p \in Prefixes, sh \in RegistrySheets}

\* the styles that can be made for a key, told apart by their identifier
Styles == [key : StyleKeys, id : 1 .. NStyles]

None == [some |-> FALSE]
Some(v) == [some |-> TRUE, val |-> v]

\* HashMap::get, HashMap::insert and HashMap::remove on a set of entries
hash_get(m, k) ==
    IF \E e \in m : e.key = k
    THEN Some((CHOOSE e \in m : e.key = k).val)
    ELSE None

hash_insert(m, k, v) == {e \in m : e.key # k} \cup {[key |-> k, val |-> v]}

hash_remove(m, k) == {e \in m : e.key # k}

RegOp(n, k, st, old, p, g) ==
    [name |-> n, key |-> k, style |-> st, old |-> old, panicked |-> p, got |-> g]

InitRegistry == mode = "registry" /\ ParserIdle /\ CacheIdle /\ LibIdle

\* a register that never panics
RegisterSilently(style) ==
    /\ styles' = hash_insert(styles, style.key, style)
    /\ regop' = RegOp("register", style.key, style,
                      hash_get(styles, style.key), FALSE, None)
    /\ UNCHANGED <<expansion, usage, dynamic, answer>>
    /\ UNCHANGED <<parserVars, cacheVars>>

\* a register that looks the key up first and panics without inserting
RegisterChecked(style) ==
    /\ styles' = IF hash_get(styles, style.key).some THEN styles
                 ELSE hash_insert(styles, style.key, style)
    /\ regop' = RegOp("register", style.key, style,
                      hash_get(styles, style.key),
                      hash_get(styles, style.key).some, None)
    /\ UNCHANGED <<expansion, usage, dynamic, answer>>
    /\ UNCHANGED <<parserVars, cacheVars>>

\* let key = style.key().clone();
\* if self.styles.insert(key, style).is_some() { panic!(..) }
Register(style) ==
    /\ styles' = hash_insert(styles, style.key, style)
    /\ regop' = RegOp("register", style.key, style,
                      hash_get(styles, style.key),
                      hash_get(styles, style.key).some, None)
    /\ UNCHANGED <<expansion, usage, dynamic, answer>>
    /\ UNCHANGED <<parserVars, cacheVars>>

\* self.styles.remove(key);
Unregister(key) ==
    /\ styles' = hash_remove(styles, key)
    /\ regop' = RegOp("unregister", key, None, None, FALSE, None)
    /\ UNCHANGED <<expansion, usage, dynamic, answer>>
    /\ UNCHANGED <<parserVars, cacheVars>>

\* self.styles.get(key)
Get(key) ==
    /\ regop' = RegOp("get", key, None, None, FALSE, hash_get(styles, key))
    /\ UNCHANGED <<styles, expansion, usage, dynamic, answer>>
    /\ UNCHANGED <<parserVars, cacheVars>>

NextRegistry ==
    \/ \E style \in Styles : Register(style)
    \/ \E key \in StyleKeys : Unregister(key)
    \/ \E key \in StyleKeys : Get(key)

SpecRegistry == InitRegistry /\ [][NextRegistry]_vars

----------------------------------------------------------------------------
(* The literal-string macro (packages/stylist-macros/src/literal/mod.rs). *)
(* The tokens after the string literal are one-character strings: `,`,    *)
(* `=`, an identifier or a literal.  The set of arguments read so far is   *)
(* the key set of the HashMap `args`.  fstring::Parser is the placeholder  *)
(* grammar of the parser applied inside a fragment's text.                 *)

MaxArgPieces == 4

Idents == {"v", "w"}
is_comma(t) == t = ","
is_equal(t) == t = "="

Abort(msg) == [aborted |-> TRUE, msg |-> msg, args |-> {}]
Done(args) == [aborted |-> FALSE, msg |-> "", args |-> args]

RECURSIVE outer_loop(_, _, _, _)
RECURSIVE inner_loop(_, _, _, _)

\* an argument that ends with the input is inserted without the check
inner_loop_unchecked_at_end(tokens, k, args, name) ==
    IF k > Len(tokens) THEN Done(args \cup {name})
    ELSE IF is_comma(tokens[k])
         THEN IF name \in args THEN Abort("duplicate named argument")
              ELSE outer_loop(tokens, k + 1, args \cup {name}, TRUE)
    ELSE inner_loop(tokens, k + 1, args, name)

\* 'inner: the tokens of one argument, up to a comma or the end of input
inner_loop(tokens, k, args, name) ==
    IF k > Len(tokens)
    THEN IF name \in args THEN Abort("duplicate named argument")
         ELSE Done(args \cup {name})
    ELSE IF is_comma(tokens[k])
         THEN IF name \in args THEN Abort("duplicate named argument")
              ELSE outer_loop(tokens, k + 1, args \cup {name}, TRUE)
    ELSE inner_loop(tokens, k + 1, args, name)

\* the name of an argument and the `=` after it
name_token(tokens, k, args) ==
    IF k > Len(tokens) THEN Done(args)
    ELSE IF tokens[k] \notin Idents THEN Abort("expected ident")
    ELSE IF k + 1 > Len(tokens) \/ ~is_equal(tokens[k + 1])
         THEN Abort("expected =")
    ELSE inner_loop(tokens, k + 2, args, tokens[k])

\* 'outer: a comma, unless the previous argument ended with one
outer_loop(tokens, k, args, comma_read) ==
    IF comma_read THEN name_token(tokens, k, args)
    ELSE IF k > Len(tokens) THEN Done(args)
    ELSE IF ~is_comma(tokens[k]) THEN Abort("expected ','")
    ELSE name_token(tokens, k + 1, args)

\* a placeholder in a fragment: `${`, optional whitespace, a bare
\* identifier, optional whitespace, `}`
fstring_placeholder(t, i) ==
    LET a == tag(<<"$", "{">>, t, i)
    IN  IF ~a.ok THEN Err
        ELSE LET n == interpolation_name(t, take_while(Whitespace, t, a.pos))
             IN  IF ~n.ok THEN Err
                 ELSE LET c == tag(<<"}">>, t, take_while(Whitespace, t, n.pos))
                      IN  IF ~c.ok THEN Err ELSE Ok(c.pos, n.val)

\* fstring::Parser::parse: the names of the placeholders in a fragment
RECURSIVE fstring_names(_, _)
fstring_names(t, i) ==
    IF i > Len(t) THEN <<>>
    ELSE LET r == fstring_placeholder(t, i)
         IN  IF r.ok THEN <<r.val>> \o fstring_names(t, r.pos)
             ELSE fstring_names(t, i + 1)

\* the placeholders of a run of fragments, in the order to_output_with_args
\* meets them
fragment_names(frags) ==
    Flatten([k \in 1 .. Len(frags) |-> fstring_names(frags[k].inner, 1)])

block_names(b) ==
    Flatten([j \in 1 .. Len(b.condition) |->
                 fragment_names(b.condition[j].fragments)])
        \o Flatten([j \in 1 .. Len(b.style_attributes) |->
                        fragment_names(b.style_attributes[j].value)])

RECURSIVE content_names(_)
content_names(items) ==
    IF items = <<>> THEN <<>>
    ELSE LET x == Head(items)
             n == CASE x.type = "String" -> <<>>
                    [] x.type = "Block" -> block_names(x)
                    [] x.type = "Rule" ->
                           fragment_names(x.condition) \o content_names(x.content)
         IN  n \o content_names(Tail(items))

NameOf(name) == <<name>>

\* sheet.to_output_with_args(&args, &mut args_used): aborts at the first
\* placeholder that names no argument
to_output_with_args(sh, args) ==
    LET names == content_names(sh)
    IN  IF \E k \in 1 .. Len(names) : names[k] \notin {NameOf(a) : a \in args}
        THEN Abort("missing argument")
        ELSE Done({a \in args : \E k \in 1 .. Len(names) : names[k] = NameOf(a)})

macro_fn(text, tokens) ==
    LET sh == parse(text)
    IN  IF ~sh.ok THEN "parse error"
        ELSE LET a == outer_loop(tokens, 1, {}, FALSE)
             IN  IF a.aborted THEN a.msg
                 ELSE LET u == to_output_with_args(sh.sheet, a.args)
                      IN  IF u.aborted THEN u.msg
                          ELSE IF \E k \in a.args : k \notin u.args
                               THEN "argument is not used"
                          ELSE "ok"

\* string literals: no placeholder, one, two, one in a prelude, a
\* placeholder-like text in an opaque body, and a text that does not parse
MacroTexts ==
    { Decl,
      <<"a", ":">> \o Placeholder \o <<";">>,
      <<"c", "{", "a", ":">> \o Placeholder \o <<";", "a", ":", "$", "{", "w", "}", "}">>,
      AtMediaTag \o <<"$", "{", "w", "}", "{">> \o Decl \o <<"}">>,
      OpaqueHead \o <<"a", ":">> \o Placeholder \o <<"}">>,
      Unbalanced }

ArgPieces == { <<",", "v", "=", "1">>, <<",", "w", "=", "1">>, <<",">>,
               <<"v", "=", "1">>, <<"w">> }

InitMacro == mode = "macro" /\ ParserIdle /\ CacheIdle /\ LibIdle

\* the string literal of an invocation
Literal(text) ==
    /\ expansion.phase = "idle"
    /\ expansion' = [phase |-> "args", text |-> text, tokens |-> <<>>,
                     supplied |-> 0, outcome |-> "none"]
    /\ UNCHANGED <<styles, regop, usage, dynamic, answer>>
    /\ UNCHANGED <<parserVars, cacheVars>>

\* more tokens after the literal
Supply(p) ==
    /\ expansion.phase = "args"
    /\ expansion.supplied < MaxArgPieces
    /\ expansion' = [expansion EXCEPT !.tokens = @ \o p, !.supplied = @ + 1]
    /\ UNCHANGED <<styles, regop, usage, dynamic, answer>>
    /\ UNCHANGED <<parserVars, cacheVars>>

Expand ==
    /\ expansion.phase = "args"
    /\ expansion' = [expansion EXCEPT
                         !.phase = "expanded",
                         !.outcome = macro_fn(expansion.text, expansion.tokens)]
    /\ UNCHANGED <<styles, regop, usage, dynamic, answer>>
    /\ UNCHANGED <<parserVars, cacheVars>>

NextMacro ==
    \/ \E text \in MacroTexts : Literal(text)
    \/ \E p \in ArgPieces : Supply(p)
    \/ Expand

SpecMacro == InitMacro /\ [][NextMacro]_vars

----------------------------------------------------------------------------
(* ReifyContext (packages/stylist-macros/src/output/context.rs).  The      *)
(* contexts are numbered in the order they are made; `dynamic` records,    *)
(* next to each context, whether uses_dynamic_argument was called on it    *)
(* (for a clone: on it or, before the clone was taken, on its original).   *)

NContexts == 3

InitContext == mode = "context" /\ ParserIdle /\ CacheIdle /\ LibIdle

Contexts == DOMAIN usage

\* self.usage == AllowedUsage::Static
is_static(c) == usage[c] = "Static"

\* ReifyContext::new(): Self { usage: AllowedUsage::Static }
New ==
    /\ Len(usage) < NContexts
    /\ usage' = Append(usage, "Static")
    /\ dynamic' = Append(dynamic, FALSE)
    /\ answer' = Append(answer, None)
    /\ UNCHANGED <<styles, regop, expansion>>
    /\ UNCHANGED <<parserVars, cacheVars>>

\* #[derive(Clone)]
Clone(c) ==
    /\ Len(usage) < NContexts
    /\ usage' = Append(usage, usage[c])
    /\ dynamic' = Append(dynamic, dynamic[c])
    /\ answer' = Append(answer, None)
    /\ UNCHANGED <<styles, regop, expansion>>
    /\ UNCHANGED <<parserVars, cacheVars>>

\* a flag that is flipped instead of set
UsesDynamicArgumentToggle(c) ==
    /\ usage' = [usage EXCEPT ![c] = IF @ = "Static" THEN "Dynamic" ELSE "Static"]
    /\ dynamic' = [dynamic EXCEPT ![c] = TRUE]
    /\ UNCHANGED <<styles, regop, expansion, answer>>
    /\ UNCHANGED <<parserVars, cacheVars>>

\* self.usage = AllowedUsage::Dynamic
UsesDynamicArgument(c) ==
    /\ usage' = [usage EXCEPT ![c] = "Dynamic"]
    /\ dynamic' = [dynamic EXCEPT ![c] = TRUE]
    /\ UNCHANGED <<styles, regop, expansion, answer>>
    /\ UNCHANGED <<parserVars, cacheVars>>

IsStatic(c) ==
    /\ answer' = [answer EXCEPT ![c] = Some(is_static(c))]
    /\ UNCHANGED <<styles, regop, expansion, usage, dynamic>>
    /\ UNCHANGED <<parserVars, cacheVars>>

NextContext ==
    \/ New
    \/ \E c \in Contexts : Clone(c)
    \/ \E c \in Contexts : UsesDynamicArgument(c)
    \/ \E c \in Contexts : IsStatic(c)

SpecContext == InitContext /\ [][NextContext]_vars

----------------------------------------------------------------------------
(* Claims about the parse cache (checked under SpecCache) *)

InCriticalSection(t) == pc[t] \in {"lookup", "parse", "insert", "unlock"}

\* C1 as stated: over any interleaving of concurrent calls the parser runs
\* at most once for each distinct source text, whatever the text.
C1_ParserRunsOncePerText == \A x \in CacheTexts : parses[x] <= 1

\* C1 as amended: the parser runs at most once for each distinct source
\* text whose parse succeeds, and at most one caller at a time is between
\* its lookup and its unlock (lookup, miss, parse and insert are atomic).
C1_SingleFlight ==
    /\ \A x \in CacheTexts : parse(x).ok => parses[x] <= 1
    /\ \A t, u \in Threads :
           InCriticalSection(t) /\ InCriticalSection(u) => t = u

\* two callers asked for the same parsable text and both returned; the
\* parser ran once
C1_Witness ==
    /\ \A t \in Threads : req[t] = Decl /\ pc[t] = "idle" /\ ret[t].ok
    /\ parses[Decl] = 1

\* C2: a failed parse stores nothing: while a caller whose text does not
\* parse holds the lock the cache does not change, its lookup misses, and
\* the parser runs again on that text and returns Err again.
C2_FailedParseStoresNothing ==
    [][\A t \in Threads :
          (pc[t] # "idle" /\ ~parse(req[t]).ok) =>
              /\ lock = t => cache' = cache
              /\ (pc[t] = "lookup" /\ pc'[t] # "lookup") => pc'[t] = "parse"
              /\ (pc[t] = "parse" /\ pc'[t] # "parse") =>
                     /\ pc'[t] = "unlock"
                     /\ ~ret'[t].ok
                     /\ parses'[req[t]] = parses[req[t]] + 1]_vars

\* the unparsable text was asked for twice, the parser ran twice, and the
\* cache holds no entry for it
C2_Witness ==
    /\ parses[Unbalanced] = 2
    /\ ~Cached(Unbalanced)
    /\ \E t \in Threads : req[t] = Unbalanced /\ pc[t] = "idle" /\ ~ret[t].ok

\* C3: a call served from the cache is served from the entry of its own
\* exact text, returns the Sheet the parser produces for that text, and the
\* parser has run exactly once on that text; every entry holds the Sheet of
\* its own key.
C3_HitServesExactText ==
    /\ \A t \in Threads :
           hit[t] # NoText =>
               /\ hit[t] = req[t]
               /\ ret[t] = parse(req[t])
               /\ ret[t].ok
               /\ parses[req[t]] = 1
    /\ \A x \in DOMAIN cache : cache[x] = parse(x).sheet /\ parse(x).ok

\* a call was served from the cache while a text that differs from it only
\* in whitespace has been parsed on its own
C3_Witness ==
    /\ \E t \in Threads : hit[t] = Decl /\ pc[t] = "idle"
    /\ parses[Decl] = 1
    /\ parses[<<" ">> \o Decl] = 1
    /\ parses[BlockSpaced] = 0

----------------------------------------------------------------------------
(* Claims about the scope grammar (checked under Spec) *)

Parsed == phase = "parsed"

\* C4: parse returns Ok only when the grammar has consumed the whole
\* input: after an Ok nothing of the text is left over, so a text with
\* leftover that no alternative accepts is an Err, never a prefix Sheet.
C4_OkConsumesWholeInput ==
    (Parsed /\ res.ok) => (out.ok /\ out.pos = Len(src) + 1)

\* a valid leading item followed by a stray `}`: parse returned Err
C4_Witness ==
    /\ Parsed
    /\ src = Decl \o <<"}">>
    /\ scope_content(src, 1).ok
    /\ scope_content(src, 1).pos = Len(Decl) + 1
    /\ ~res.ok

\* the alternative that wins at position i, tried in the stated order:
\* 1 dangling attribute run, 2 qualified block, 3 recognized at-rule,
\* 4 opaque at-rule
FirstAlternative(s, i) ==
    LET a == dangling_block(s, i)
        b == block(s, i)
        c == at_rule(s, i)
        d == rule(s, i)
    IN  IF a.ok THEN [alt |-> 1, r |-> a]
        ELSE IF b.ok THEN [alt |-> 2, r |-> b]
        ELSE IF c.ok THEN [alt |-> 3, r |-> c]
        ELSE [alt |-> 4, r |-> d]

\* where the body of the recognized at-rule at i starts
AtRuleBody(s, i) == at_rule_condition(s, opt(sp(s, i), i).pos).pos + 1

\* every item of a scope that starts at i is the result of the first
\* alternative that succeeds at the item's position, in nested scopes too
RECURSIVE PriorityHolds(_, _, _)
PriorityHolds(s, i, items) ==
    IF items = <<>> THEN TRUE
    ELSE LET f == FirstAlternative(s, i)
         IN  /\ f.r.ok
             /\ f.r.val = Head(items)
             /\ f.alt = 3 =>
                    PriorityHolds(s, AtRuleBody(s, i), Head(items).content)
             /\ PriorityHolds(s, f.r.pos, Tail(items))

\* C5: the item at every position of a scope is that of the first of the
\* four alternatives, in the fixed order, that succeeds there; a text that
\* starts with a complete `key: value;` declaration starts with a Block
\* with an empty condition.
C5_FirstAlternativeWins ==
    (Parsed /\ res.ok) =>
        /\ PriorityHolds(src, 1, res.sheet)
        /\ dangling_attribute(src, 1).ok =>
               /\ Len(res.sheet) >= 1
               /\ res.sheet[1].type = "Block"
               /\ res.sheet[1].condition = <<>>

\* `a:b;c{}`: a qualified block can be read from position 1 as well, and
\* the Sheet is the dangling Block followed by the Block of selector c
C5_Witness ==
    /\ Parsed
    /\ src = Decl \o <<"c", "{", "}">>
    /\ block(src, 1).ok
    /\ res.ok
    /\ res.sheet = << Block(<<>>, <<StyleAttribute(<<"a">>,
                                        <<StringFragment(<<"b">>)>>)>>),
                      Block(<<Selector(<<StringFragment(<<"c">>)>>)>>, <<>>) >>

\* the declarations read one after another from position i
RECURSIVE DeclarationRun(_, _)
DeclarationRun(s, i) ==
    LET r == dangling_attribute(s, i)
    IN  IF ~r.ok THEN [pos |-> i, attrs |-> <<>>]
        ELSE LET rest == DeclarationRun(s, r.pos)
             IN  [pos |-> rest.pos, attrs |-> <<r.val>> \o rest.attrs]

IsDangling(item) == item.type = "Block" /\ item.condition = <<>>

\* no two neighbours of a scope are dangling Blocks, in nested scopes too
RECURSIVE NoSplitRun(_)
NoSplitRun(items) ==
    /\ \A k \in 1 .. Len(items) - 1 :
           ~(IsDangling(items[k]) /\ IsDangling(items[k + 1]))
    /\ \A k \in 1 .. Len(items) :
           (items[k].type = "Rule" /\ Len(items[k].condition) = 2) =>
               NoSplitRun(items[k].content)

\* C6: a text that is a run of one or more declarations parses to exactly
\* one Block with an empty condition holding those declarations in source
\* order, and no Sheet holds two neighbouring empty-condition Blocks.
C6_RunIsOneBlock ==
    Parsed =>
        /\ LET run == DeclarationRun(src, 1)
           IN  (run.attrs # <<>> /\ run.pos = Len(src) + 1) =>
                   (res.ok /\ res.sheet = <<Block(<<>>, run.attrs)>>)
        /\ res.ok => NoSplitRun(res.sheet)

\* two declarations with different keys, in one Block and in source order
C6_Witness ==
    /\ Parsed
    /\ src = Decl \o <<" ", "c">> \o Decl
    /\ res.ok
    /\ Len(res.sheet) = 1
    /\ Len(res.sheet[1].style_attributes) = 2
    /\ res.sheet[1].style_attributes[1].key = <<"a">>
    /\ res.sheet[1].style_attributes[2].key = <<"c", "a">>

\* the first `{` of s that does not open a `${` placeholder
RECURSIVE FirstBrace(_, _)
FirstBrace(s, i) ==
    IF i > Len(s) THEN i
    ELSE IF s[i] = "{" /\ (i = 1 \/ s[i - 1] # "$") THEN i
    ELSE FirstBrace(s, i + 1)

\* the comma-delimited entries of t, each trimmed
RECURSIVE SplitCommas(_, _, _)
SplitCommas(t, i, from) ==
    IF i > Len(t) THEN <<trim(Span(t, from, i))>>
    ELSE IF t[i] = "," THEN <<trim(Span(t, from, i))>> \o SplitCommas(t, i + 1, i + 1)
    ELSE SplitCommas(t, i + 1, from)

\* the entries of a selector list; a comma before `{` ends the last entry
Entries(t) ==
    LET e == SplitCommas(t, 1, 1)
    IN  IF Len(e) > 1 /\ e[Len(e)] = <<>> THEN SubSeq(e, 1, Len(e) - 1) ELSE e

\* C7: when a text starts with a qualified block, the Block's condition
\* holds exactly one Selector per comma-delimited entry of the text before
\* `{`, in source order, each the entry's trimmed text.
C7_OneSelectorPerEntry ==
    (Parsed /\ res.ok /\ res.sheet # <<>> /\ res.sheet[1].type = "Block"
        /\ res.sheet[1].condition # <<>>) =>
        LET e == Entries(Span(src, 1, FirstBrace(src, 1)))
            c == res.sheet[1].condition
        IN  /\ Len(c) = Len(e)
            /\ \A k \in 1 .. Len(c) :
                   c[k] = Selector(<<StringFragment(e[k])>>)

\* `c,${v}{}`: a literal entry and a placeholder entry give two Selectors
C7_Witness ==
    /\ Parsed
    /\ src = <<"c", ",">> \o Placeholder \o <<"{", "}">>
    /\ res.ok
    /\ res.sheet = << Block(<< Selector(<<StringFragment(<<"c">>)>>),
                                Selector(<<StringFragment(Placeholder)>>) >>,
                             <<>>) >>

----------------------------------------------------------------------------
(* Claims about at-rules (C8 and C10 under SpecAtRule, C9 under Spec) *)

RecognizedTags == {AtMediaTag, AtSupportsTag}

\* the text is T, a non-empty prelude, `{`, a body that parses on its own,
\* and a final `}`
RecognizedForm(T) ==
    LET b == FirstBrace(src, 1)
    IN  /\ StartsWith(src, T)
        /\ b > Len(T) + 1
        /\ b < Len(src)
        /\ src[Len(src)] = "}"
        /\ parse(Span(src, b + 1, Len(src))).ok

RecognizedPrelude(T) == Span(src, Len(T) + 1, FirstBrace(src, 1))

RecognizedBody == Span(src, FirstBrace(src, 1) + 1, Len(src))

\* C8: `@media <prelude> { body }` and `@supports <prelude> { body }` parse
\* to one Rule whose condition is the prefix with its trailing space and
\* then the trimmed prelude, and whose content is the parsed items of the
\* body in source order.
C8_RecognizedAtRule ==
    \A T \in RecognizedTags :
        (Parsed /\ RecognizedForm(T)) =>
            /\ res.ok
            /\ res.sheet =
                   << Rule(<< StringFragment(T),
                              StringFragment(trim(RecognizedPrelude(T))) >>,
                           IntoRuleContents(parse(RecognizedBody).sheet)) >>

\* `@supports c {c{a:b;}}`: the prelude `c ` is stored as `c`, the body's
\* qualified block is the Rule's only content item
C8_Witness ==
    /\ Parsed
    /\ src = SupportsHead \o <<"c", "{">> \o Decl \o <<"}", "}">>
    /\ RecognizedForm(AtSupportsTag)
    /\ RecognizedPrelude(AtSupportsTag) = <<"c", " ">>
    /\ res.ok
    /\ res.sheet[1].condition
           = <<StringFragment(AtSupportsTag), StringFragment(<<"c">>)>>
    /\ res.sheet[1].content
           = << Block(<<Selector(<<StringFragment(<<"c">>)>>)>>,
                      <<StyleAttribute(<<"a">>, <<StringFragment(<<"b">>)>>)>>) >>

\* C9: a body that parse accepts on its own with result S, wrapped as
\* `@media c{B}`, parses to one Rule whose content equals S item for item
\* (each ScopeContent as the matching RuleContent), at nesting depth 1 and
\* at nesting depth 2.
C9_BodyParsedAsSheet ==
    (Parsed /\ mode = "block" /\ depth > 0) =>
        /\ res.ok
        /\ res.sheet =
               << Rule(<<StringFragment(AtMediaTag), StringFragment(<<"c">>)>>,
                       IntoRuleContents(inner)) >>

\* depth 2: `@media c{@media c{a:b;c{}}}`, two items in the innermost body
C9_Witness ==
    /\ Parsed
    /\ mode = "block"
    /\ depth = 2
    /\ src = MediaHead \o MediaHead \o Decl \o <<"c", "{", "}", "}", "}">>
    /\ Len(inner) = 1
    /\ Len(inner[1].content) = 2
    /\ res.ok

\* every prefix of t has at least as many `{` as `}`; `open` counts the
\* groups still open
RECURSIVE Balanced(_, _, _)
Balanced(t, i, open) ==
    IF i > Len(t) THEN open = 0
    ELSE IF t[i] = "{" THEN Balanced(t, i + 1, open + 1)
    ELSE IF t[i] = "}" THEN open > 0 /\ Balanced(t, i + 1, open - 1)
    ELSE Balanced(t, i + 1, open)

\* the braces of t, in order
RECURSIVE Braces(_)
Braces(t) ==
    IF t = <<>> THEN <<>>
    ELSE IF Head(t) \in {"{", "}"} THEN <<Head(t)>> \o Braces(Tail(t))
    ELSE Braces(Tail(t))

\* the brace items of a Rule's content, in order
RECURSIVE BraceItems(_)
BraceItems(items) ==
    IF items = <<>> THEN <<>>
    ELSE IF Head(items).inner \in {<<"{">>, <<"}">>}
         THEN Head(items).inner \o BraceItems(Tail(items))
    ELSE BraceItems(Tail(items))

\* the text is `@name{body}` with a name that does not start with @media
\* or @supports and a body with balanced braces
OpaqueForm ==
    LET b == FirstBrace(src, 1)
    IN  /\ Len(src) >= 4
        /\ src[1] = "@"
        /\ b > 2
        /\ b < Len(src)
        /\ ~StartsWith(src, AtMedia)
        /\ ~StartsWith(src, AtSupports)
        /\ src[Len(src)] = "}"
        /\ Balanced(Span(src, b + 1, Len(src)), 1, 0)

OpaqueNameText == trim(Span(src, 1, FirstBrace(src, 1)))

OpaqueBody == Span(src, FirstBrace(src, 1) + 1, Len(src))

\* C10: every at-rule with another name than @media/@supports and a body
\* with balanced braces parses to one Rule whose condition is the single
\* fragment of the trimmed text from `@` to `{` and whose content is a flat
\* sequence of String items holding each `{` and `}` of the body as an item
\* of its own, in source order.
C10_OpaqueAtRuleParses ==
    (Parsed /\ OpaqueForm) =>
        /\ res.ok
        /\ Len(res.sheet) = 1
        /\ res.sheet[1].type = "Rule"
        /\ res.sheet[1].condition = <<StringFragment(OpaqueNameText)>>
        /\ \A k \in 1 .. Len(res.sheet[1].content) :
               res.sheet[1].content[k].type = "String"
        /\ BraceItems(res.sheet[1].content) = Braces(OpaqueBody)

----------------------------------------------------------------------------
(* Claims about names, strings and placeholders *)

IsRecognizedName(t) == StartsWith(t, AtMedia) \/ StartsWith(t, AtSupports)

\* every Rule of items (and of the Rules below it) whose condition begins
\* with @media or @supports has two condition fragments and only Blocks and
\* Rules as direct content
RECURSIVE RecognizedRulesAreStructured(_)
RecognizedRulesAreStructured(items) ==
    \A k \in 1 .. Len(items) :
        (items[k].type = "Rule"
            /\ IsRecognizedName(items[k].condition[1].inner)) =>
            /\ Len(items[k].condition) = 2
            /\ \A j \in 1 .. Len(items[k].content) :
                   items[k].content[j].type \in {"Block", "Rule"}
            /\ RecognizedRulesAreStructured(items[k].content)

\* C11: in every Sheet parse returns, at every nesting depth, a Rule whose
\* condition begins with `@media` or `@supports` is the structurally parsed
\* form: two condition fragments, content of Blocks and Rules, never the
\* opaque form with String items.
C11_RecognizedNeverOpaque ==
    (Parsed /\ res.ok) => RecognizedRulesAreStructured(res.sheet)

\* `@media {c}`: the opaque alternative matches the text, its name starts
\* with @media, and parse returns Err instead of an opaque Rule
C11_Witness ==
    /\ Parsed
    /\ src = AtMediaTag \o <<"{", "c", "}">>
    /\ rule_pair_any_name(src, 1).ok
    /\ ~at_rule(src, 1).ok
    /\ ~res.ok

\* the text between the frame's two parts
Framed(f) ==
    /\ depth = 1
    /\ Len(src) >= Len(f.pre) + Len(f.post)
    /\ SubSeq(src, 1, Len(f.pre)) = f.pre
    /\ SubSeq(src, Len(src) - Len(f.post) + 1, Len(src)) = f.post

FrameBody(f) == SubSeq(src, Len(f.pre) + 1, Len(src) - Len(f.post))

\* the Sheet of a frame whose fragment holds the text t
FrameSheet(f, t) ==
    CASE f.kind = "selector" ->
             << Block(<<Selector(<<StringFragment(t)>>)>>, <<>>) >>
      [] f.kind = "dangling" ->
             << Block(<<>>, <<StyleAttribute(<<"a">>, <<StringFragment(t)>>)>>) >>
      [] f.kind = "block" ->
             << Block(<<Selector(<<StringFragment(<<"c">>)>>)>>,
                      <<StyleAttribute(<<"a">>, <<StringFragment(t)>>)>>) >>

\* C12: a double-quoted string in a selector or an attribute value is one
\* opaque span: whatever of `{`, `}`, `;`, `@`, `$`, `,` and `\"` it holds,
\* the text parses, the selector, value and block end where they end
\* without the string's content, and the fragment holds the string as
\* written, quotes and escapes included.
C12_StringIsOpaque ==
    \A f \in StringFrames :
        (Parsed /\ mode = "string" /\ Framed(f)) =>
            /\ res.ok
            /\ res.sheet = FrameSheet(f, f.lead \o FrameBody(f) \o f.trail)

\* `c{a:"}\";"}`: a closing brace, an escaped quote and a semicolon inside
\* the string of a block's attribute value
C12_Witness ==
    /\ Parsed
    /\ mode = "string"
    /\ src = <<"c", "{", "a", ":", "\"", "}", "\\", "\"", ";", "\"", "}">>
    /\ res.ok
    /\ res.sheet[1].style_attributes[1].value
           = <<StringFragment(<<"\"", "}", "\\", "\"", ";", "\"">>)>>

\* the braces of t that lie outside double-quoted strings, in order
RECURSIVE OutsideBraces(_, _, _)
OutsideBraces(t, i, quoted) ==
    IF i > Len(t) THEN <<>>
    ELSE IF quoted /\ t[i] = "\\" THEN OutsideBraces(t, i + 2, quoted)
    ELSE IF t[i] = "\"" THEN OutsideBraces(t, i + 1, ~quoted)
    ELSE IF ~quoted /\ t[i] \in {"{", "}"}
         THEN <<t[i]>> \o OutsideBraces(t, i + 1, quoted)
    ELSE OutsideBraces(t, i + 1, quoted)

\* C13: in the body of an opaque at-rule a brace inside a double-quoted
\* string does not count toward brace balancing: when the braces outside
\* strings are balanced the text parses to one Rule, and the `{` and `}`
\* items of its content are exactly the braces outside strings.
C13_QuotedBracesAreText ==
    \A f \in OpaqueFrames :
        (Parsed /\ mode = "opaque" /\ Framed(f)
            /\ Balanced(OutsideBraces(FrameBody(f), 1, FALSE), 1, 0)) =>
            /\ res.ok
            /\ Len(res.sheet) = 1
            /\ res.sheet[1].type = "Rule"
            /\ res.sheet[1].condition = <<StringFragment(OpaqueName)>>
            /\ \A k \in 1 .. Len(res.sheet[1].content) :
                   res.sheet[1].content[k].type = "String"
            /\ BraceItems(res.sheet[1].content)
                   = OutsideBraces(FrameBody(f), 1, FALSE)

----------------------------------------------------------------------------
(* Claims about attribute values (checked under SpecValue) *)

\* the source texts of the fragments of t: each run of literal text and
\* each `${name}` placeholder, in order
RECURSIVE SplitFragments(_, _, _)
SplitFragments(t, i, from) ==
    LET literal == IF from < i THEN <<Span(t, from, i)>> ELSE <<>>
    IN  IF i > Len(t) THEN literal
        ELSE IF t[i] = "$" /\ i < Len(t) /\ t[i + 1] = "{"
        THEN LET e == take_till({"}"}, t, i)
             IN  literal \o <<Span(t, i, e + 1)>>
                     \o SplitFragments(t, e + 1, e + 1)
        ELSE SplitFragments(t, i + 1, from)

FragmentTexts(value) == [k \in 1 .. Len(value) |-> value[k].inner]

AttributeValue(f) ==
    res.sheet[1].style_attributes[Len(res.sheet[1].style_attributes)].value

\* C14 as stated: the value of a declaration that parses is the ordered
\* sequence of its literal and placeholder fragments, one fragment per
\* literal run and one per placeholder.
C14_ValueIsFragmentSequence ==
    \A f \in ValueFrames :
        (Parsed /\ mode = "value" /\ Framed(f) /\ res.ok) =>
            FragmentTexts(AttributeValue(f))
                = SplitFragments(trim(FrameBody(f)), 1, 1)

\* C14 as amended: `a: ${v};` parses to key `a` and a value of exactly one
\* fragment holding the placeholder as written, and the value of every
\* declaration that parses is exactly one fragment: the trimmed source text
\* of the value, literal text and placeholders in order and verbatim.
C14_ValueIsOneFragment ==
    \A f \in ValueFrames :
        (Parsed /\ mode = "value" /\ Framed(f)) =>
            /\ FrameBody(f) = <<" ">> \o Placeholder =>
                   res = [ok |-> TRUE, sheet |-> FrameSheet(f, Placeholder)]
            /\ res.ok => res.sheet = FrameSheet(f, trim(FrameBody(f)))

\* `a:b ${v}1;`: literal text, a placeholder and literal text again, kept as
\* one fragment
C14_Witness ==
    /\ Parsed
    /\ mode = "value"
    /\ src = <<"a", ":", "b", " ">> \o Placeholder \o <<"1", ";">>
    /\ res.ok
    /\ res.sheet[1].style_attributes[1].value
           = <<StringFragment(<<"b", " ">> \o Placeholder \o <<"1">>)>>

----------------------------------------------------------------------------
(* Claims about unterminated constructs (checked under SpecOpen) *)

\* what is still open at the end of t: a quoted string, and the number of
\* `{` outside strings (those of `${` included) that no `}` has closed
RECURSIVE OpenAtEnd(_, _, _, _)
OpenAtEnd(t, i, quoted, open) ==
    IF i > Len(t) THEN [quoted |-> quoted, open |-> open]
    ELSE IF quoted /\ t[i] = "\\" THEN OpenAtEnd(t, i + 2, quoted, open)
    ELSE IF t[i] = "\"" THEN OpenAtEnd(t, i + 1, ~quoted, open)
    ELSE IF ~quoted /\ t[i] = "{" THEN OpenAtEnd(t, i + 1, quoted, open + 1)
    ELSE IF ~quoted /\ t[i] = "}" /\ open > 0
         THEN OpenAtEnd(t, i + 1, quoted, open - 1)
    ELSE OpenAtEnd(t, i + 1, quoted, open)

Unterminated(t) ==
    LET e == OpenAtEnd(t, 1, FALSE, 0) IN e.quoted \/ e.open > 0

\* C15: a text with an unterminated construct, a `{` without its `}`, a
\* string without its closing quote or a `${name` without its `}`, at the
\* top level or in the body of a block, a recognized at-rule or an opaque
\* at-rule, makes parse return Err.
C15_UnterminatedIsErr ==
    \A f \in OpenFrames :
        (Parsed /\ mode = "open" /\ Framed(f) /\ Unterminated(src)) => ~res.ok

\* the characters the claim lists as ending the literal text of a value
ClaimedValueStop == {"$", ";", "{", "}"}

IsBlank(t) == \A k \in 1 .. Len(t) : t[k] \in Whitespace

\* C16: outside quoted strings only `$`, `;`, `{` and `}` end the literal
\* text of an attribute value: a declaration whose value holds none of
\* them (and no quote) parses, and the attribute's value holds that text,
\* a bare `/` included.
C16_OnlyListedCharactersEndValue ==
    \A f \in ValueFrames :
        (Parsed /\ mode = "value" /\ Framed(f)
            /\ ~IsBlank(FrameBody(f))
            /\ \A k \in 1 .. Len(FrameBody(f)) :
                   FrameBody(f)[k] \notin ClaimedValueStop \cup {"\""}) =>
            /\ res.ok
            /\ res.sheet = FrameSheet(f, trim(FrameBody(f)))

----------------------------------------------------------------------------
(* Claims about the placeholder primitive (checked under SpecName) *)

\* a bare identifier as the spec describes it: letters, digits, `_` and
\* non-ASCII letters, not starting with a digit
DescribedName(t) ==
    /\ t # <<>>
    /\ t[1] \in Alpha \cup {"_"} \cup NonAscii
    /\ \A k \in 1 .. Len(t) : t[k] \in Alpha \cup Digit \cup {"_"} \cup NonAscii

\* C17: the interpolation primitive accepts exactly `${`, optional
\* whitespace, a bare identifier (letters, digits, `_`, non-ASCII letters,
\* no leading digit), optional whitespace, `}`; a declaration whose value
\* is such a placeholder parses, and a name that starts with a digit is
\* rejected.
C17_PlaceholderNames ==
    \A f \in NameFrames :
        (Parsed /\ mode = "name" /\ Framed(f)) =>
            LET p == f.lead \o FrameBody(f) \o f.trail
            IN  /\ interpolation(p, 1).ok <=> DescribedName(trim(FrameBody(f)))
                /\ DescribedName(trim(FrameBody(f))) =>
                       res = [ok |-> TRUE, sheet |-> FrameSheet(f, p)]

----------------------------------------------------------------------------
(* Claims about comments (checked under SpecComment) *)

\* the position after the comment that starts at i (i itself if none does)
CommentEnd(t, i) ==
    IF i < Len(t) /\ t[i] = "/" /\ t[i + 1] = "*"
    THEN LET ends == { j \in i + 2 .. Len(t) - 1 : t[j] = "*" /\ t[j + 1] = "/" }
         IN  IF ends = {} THEN i
             ELSE (CHOOSE j \in ends : \A k \in ends : j <= k) + 2
    ELSE i

\* t without its comments
RECURSIVE StripComments(_, _)
StripComments(t, i) ==
    IF i > Len(t) THEN <<>>
    ELSE IF CommentEnd(t, i) > i THEN StripComments(t, CommentEnd(t, i))
    ELSE <<t[i]>> \o StripComments(t, i + 1)

\* no comment of t stands inside an identifier or a word of a value
CommentsAtBoundaries(t) ==
    \A i \in 1 .. Len(t) :
        LET e == CommentEnd(t, i)
        IN  e > i => ~(/\ i > 1
                       /\ e <= Len(t)
                       /\ t[i - 1] \in IdentRest
                       /\ t[e] \in IdentRest)

\* C18: a comment before or after the content of a grammar rule (an
\* attribute key, an attribute value, a block's attribute list, a
\* selector, a block, an at-rule) is dropped: a text whose form without
\* comments parses gives the same Sheet as that form.
C18_CommentsAreDropped ==
    \A f \in CommentFrames :
        (Parsed /\ mode = "comment" /\ Framed(f)
            /\ CommentsAtBoundaries(src)
            /\ parse(StripComments(src, 1)).ok) =>
            res = parse(StripComments(src, 1))

----------------------------------------------------------------------------
\* no space, tab, carriage return or newline at either end
Trimmed(t) ==
    t = <<>> \/ (t[1] \notin Whitespace /\ t[Len(t)] \notin Whitespace)

AttributesTrimmed(attrs) ==
    \A j \in 1 .. Len(attrs) :
        /\ Trimmed(attrs[j].key)
        /\ \A m \in 1 .. Len(attrs[j].value) : Trimmed(attrs[j].value[m].inner)

SelectorsTrimmed(sels) ==
    \A j \in 1 .. Len(sels) :
        \A m \in 1 .. Len(sels[j].fragments) :
            Trimmed(sels[j].fragments[m].inner)

\* the fragments of an at-rule's prelude, the prefix `@media ` /
\* `@supports ` excepted
PreludeTrimmed(frags) ==
    \A j \in 1 .. Len(frags) :
        \/ Trimmed(frags[j].inner)
        \/ j = 1 /\ frags[j].inner \in RecognizedTags

RECURSIVE ItemsTrimmed(_)
ItemsTrimmed(items) ==
    \A k \in 1 .. Len(items) :
        CASE items[k].type = "String" -> Trimmed(items[k].inner)
          [] items[k].type = "Block" ->
                 /\ SelectorsTrimmed(items[k].condition)
                 /\ AttributesTrimmed(items[k].style_attributes)
          [] items[k].type = "Rule" ->
                 /\ PreludeTrimmed(items[k].condition)
                 /\ ItemsTrimmed(items[k].content)

\* the Sheet of a frame whose fragment holds the text t
TrimSheet(f, t) ==
    CASE f.kind = "key" ->
             << Block(<<>>, <<StyleAttribute(t, <<StringFragment(<<"b">>)>>)>>) >>
      [] f.kind = "prelude" ->
             << Rule(<<StringFragment(AtMediaTag), StringFragment(t)>>, <<>>) >>
      [] f.kind = "name" ->
             << Rule(<<StringFragment(t)>>, <<>>) >>
      [] f.kind = "item" ->
             << Rule(<<StringFragment(OpaqueName)>>,
                     IF t = <<>> THEN <<>> ELSE <<RuleString(t)>>) >>
      [] OTHER -> FrameSheet(f, t)

\* C19: in every Sheet returned by parse each attribute key, value
\* fragment, selector fragment, at-rule prelude fragment and opaque String
\* item has no space, tab, carriage return or newline at either end (the
\* prefix fragment `@media ` / `@supports ` excepted), and the whitespace
\* inside a fragment is kept as written: the fragment is the text as
\* typed with only its outer whitespace removed.
C19_FragmentsAreTrimmed ==
    (Parsed /\ mode = "trim" /\ res.ok) =>
        /\ ItemsTrimmed(res.sheet)
        /\ \A f \in TrimFrames :
               Framed(f) =>
                   res.sheet = TrimSheet(f, trim(f.lead \o FrameBody(f) \o f.trail))

\* `c{a: b<TAB>b }`: the value `b<TAB>b` with a space on either side
C19_Witness ==
    /\ Parsed
    /\ mode = "trim"
    /\ src = <<"c", "{", "a", ":", " ", "b", "\t", "b", " ", "}">>
    /\ res.ok
    /\ res.sheet[1].style_attributes[1].value
           = <<StringFragment(<<"b", "\t", "b">>)>>

----------------------------------------------------------------------------
\* a non-empty attribute list written without a `;` after its last
\* attribute: the text ends, whitespace aside, in something other than `;`
EndsInAttribute(t) == trim(t) # <<>> /\ trim(t)[Len(trim(t))] # ";"

\* the framed text with a `;` put before the closing brace of the block
WithTrailingSemicolon(f) == f.pre \o FrameBody(f) \o <<";">> \o f.post

\* C20: the `;` after the last attribute of a qualified block is optional:
\* for every selector list and non-empty attribute list, the text with a
\* `;` before `}` and the text without it parse to the same result, and
\* whenever one of the two is Ok so is the other.
C20_TrailingSemicolonOptional ==
    \A f \in ListFrames :
        (Parsed /\ mode = "list" /\ Framed(f) /\ EndsInAttribute(FrameBody(f))) =>
            parse(WithTrailingSemicolon(f)) = res

\* `c,d{a:b;a:${v}}`: two attributes, no `;` after the second
C20_Witness ==
    /\ Parsed
    /\ mode = "list"
    /\ src = <<"c", ",", "d", "{">> \o DeclPlain \o <<";">> \o DeclPlaceholder
                 \o <<"}">>
    /\ res.ok
    /\ Len(res.sheet[1].style_attributes) = 2
    /\ parse(<<"c", ",", "d", "{">> \o DeclPlain \o <<";">> \o DeclPlaceholder
                 \o <<";", "}">>) = res

----------------------------------------------------------------------------
EmptySheet == [ok |-> TRUE, sheet |-> <<>>]

\* C21: the empty text, and every text made only of spaces, tabs,
\* carriage returns and newlines, parses to Ok with a Sheet of zero
\* entries.
C21_BlankIsEmptySheet ==
    (Parsed /\ mode = "trim" /\ depth = 0 /\ IsBlank(src)) => res = EmptySheet

\* one of each whitespace character and nothing else
C21_Witness ==
    /\ Parsed
    /\ mode = "trim"
    /\ src = <<" ", "\t", "\r", "\n">>
    /\ res.ok
    /\ Len(res.sheet) = 0

----------------------------------------------------------------------------
EmptyBody == <<"{", "}">>

\* a word with spaces around and inside it
IsWords(t) ==
    /\ \A k \in 1 .. Len(t) : t[k] \in {"c", " "}
    /\ \E k \in 1 .. Len(t) : t[k] = "c"

EndsWith(t, p) ==
    Len(t) >= Len(p) /\ SubSeq(t, Len(t) - Len(p) + 1, Len(t)) = p

\* `sel {}`
EmptyBlockForm ==
    EndsWith(src, EmptyBody) /\ IsWords(SubSeq(src, 1, Len(src) - 2))

\* `@media cond {}`
EmptyMediaForm ==
    /\ StartsWith(src, AtMediaTag)
    /\ EndsWith(src, EmptyBody)
    /\ IsWords(SubSeq(src, Len(AtMediaTag) + 1, Len(src) - 2))

\* C22: empty bodies are legal: `sel {}` parses to one Block with that
\* selector and no attributes, `@media cond {}` to one Rule with the two
\* condition fragments and no content.
C22_EmptyBodiesAreLegal ==
    (Parsed /\ mode = "block" /\ depth = 0) =>
        /\ EmptyBlockForm =>
               res = [ok |-> TRUE,
                      sheet |-> << Block(<<Selector(<<StringFragment(
                                       trim(SubSeq(src, 1, Len(src) - 2)))>>)>>,
                                       <<>>) >>]
        /\ EmptyMediaForm =>
               res = [ok |-> TRUE,
                      sheet |-> << Rule(<<StringFragment(AtMediaTag),
                                          StringFragment(trim(SubSeq(src,
                                              Len(AtMediaTag) + 1, Len(src) - 2)))>>,
                                        <<>>) >>]

\* `@media c {}`
C22_Witness ==
    /\ Parsed
    /\ mode = "block"
    /\ src = AtMediaTag \o <<"c", " ", "{", "}">>
    /\ res.ok
    /\ Len(res.sheet) = 1
    /\ res.sheet[1].type = "Rule"
    /\ Len(res.sheet[1].condition) = 2
    /\ res.sheet[1].content = <<>>

----------------------------------------------------------------------------
\* a Block's selectors and attribute values have fragments, and the Block
\* is not empty on both sides
BlockWellFormed(b) ==
    /\ \A j \in 1 .. Len(b.condition) : Len(b.condition[j].fragments) >= 1
    /\ \A j \in 1 .. Len(b.style_attributes) :
           Len(b.style_attributes[j].value) >= 1
    /\ b.condition = <<>> => Len(b.style_attributes) >= 1
    /\ b.style_attributes = <<>> => Len(b.condition) >= 1

RECURSIVE ItemsWellFormed(_)
ItemsWellFormed(items) ==
    \A k \in 1 .. Len(items) :
        CASE items[k].type = "String" -> TRUE
          [] items[k].type = "Block" -> BlockWellFormed(items[k])
          [] items[k].type = "Rule" ->
                 /\ Len(items[k].condition) >= 1
                 /\ ItemsWellFormed(items[k].content)

\* C23: in every Sheet parse returns, at every nesting depth, every
\* Selector, attribute value and Rule condition has at least one fragment,
\* a Block without a condition has at least one attribute, and a Block
\* without attributes has a condition.
C23_NothingIsEmptyUnlessAllowed ==
    (Parsed /\ res.ok) => ItemsWellFormed(res.sheet)

\* `@media c{a:b;c{}}`: a dangling group and an empty block inside a rule
C23_Witness ==
    /\ Parsed
    /\ mode = "block"
    /\ src = MediaHead \o Decl \o <<"c", "{", "}", "}">>
    /\ res.ok
    /\ Len(res.sheet) = 1
    /\ Len(res.sheet[1].content) = 2
    /\ res.sheet[1].content[1].condition = <<>>
    /\ res.sheet[1].content[2].style_attributes = <<>>

----------------------------------------------------------------------------
(* Claims about the style registry (checked under SpecRegistry) *)

Registered(m, k) == \E e \in m : e.key = k

OneStylePerKey == \A e1, e2 \in styles : e1.key = e2.key => e1 = e2

\* C24: register panics exactly when a style with an equal StyleKey (same
\* prefix, structurally equal sheet) is already registered, and the
\* registry never holds two styles for one key.
C24_RegisterPanicsOnDuplicate ==
    /\ []OneStylePerKey
    /\ [][regop'.name = "register" =>
              (regop'.panicked <=> Registered(styles, regop'.key))]_vars

\* a second style for a key that is registered, next to another key's style
C24_Witness ==
    /\ mode = "registry"
    /\ regop.name = "register"
    /\ regop.panicked
    /\ Cardinality(styles) = 2

\* C25: over any sequence of register and unregister operations, a
\* registered style is what get returns for its key in every later state
\* until unregister is called with that key; after unregister get returns
\* nothing for the key; and unregister changes no other key's entry.
C25_RegisteredUntilUnregistered ==
    [][\A k \in StyleKeys :
          /\ (regop'.name = "register" /\ ~regop'.panicked /\ regop'.key = k) =>
                 hash_get(styles', k) = Some(regop'.style)
          /\ (regop'.name = "unregister" /\ regop'.key = k) =>
                 hash_get(styles', k) = None
          /\ (regop'.name = "unregister" /\ regop'.key # k) =>
                 hash_get(styles', k) = hash_get(styles, k)
          /\ (Registered(styles, k)
                  /\ ~(regop'.name = "unregister" /\ regop'.key = k)) =>
                 hash_get(styles', k) = hash_get(styles, k)]_vars

----------------------------------------------------------------------------
\* the rules the grammar repeats with many0 and with many1
RepeatedMany0 == {"scope", "scope_content", "string_or_curlies"}
RepeatedMany1 == {"dangling_attribute", "condition_entry", "selector_part",
                  "style_attr_value_part", "at_rule_condition_part"}

\* a repetition that returns n items has moved the cursor by at least n
\* characters, and never past the end of the text
ConsumesPerIteration(m, i, s) ==
    m.ok => (Len(m.val) <= m.pos - i /\ m.pos <= Len(s) + 1)

RepetitionsConsume(s) ==
    \A i \in 1 .. Len(s) + 1 :
        /\ \A P \in RepeatedMany0 : ConsumesPerIteration(many0(P, s, i), i, s)
        /\ \A P \in RepeatedMany1 : ConsumesPerIteration(many1(P, s, i), i, s)

\* the number of `{` in t
BraceCount(t) == Cardinality({k \in 1 .. Len(t) : t[k] = "{"})

\* the brace nesting depth of t: the most braces open at once, a `}`
\* closing the last open `{`
RECURSIVE BraceNesting(_, _, _)
BraceNesting(t, i, open) ==
    IF i > Len(t) THEN open
    ELSE IF t[i] = "{"
         THEN Max({open + 1, BraceNesting(t, i + 1, open + 1)})
    ELSE IF t[i] = "}" /\ open > 0
         THEN Max({open, BraceNesting(t, i + 1, open - 1)})
    ELSE BraceNesting(t, i + 1, open)

\* C26 as stated: parse returns Ok or Err on every text, every repetition
\* consumes at least one character per iteration or stops, and the
\* recursion depth of the at-rule and opaque-brace rules never exceeds the
\* brace nesting depth of the text.
C26_DepthWithinBraceNesting ==
    (Parsed /\ mode = "nest") =>
        /\ res.ok \in BOOLEAN
        /\ RepetitionsConsume(src)
        /\ sheet_depth(src) <= BraceNesting(src, 1, 0)

\* C26, amended: parse returns Ok or Err on every text, every repetition
\* consumes at least one character per iteration or stops, and the
\* recursion depth of the at-rule and opaque-brace rules never exceeds the
\* number of `{` characters in the text.
C26_DepthWithinBraceCount ==
    (Parsed /\ mode = "nest") =>
        /\ res.ok \in BOOLEAN
        /\ RepetitionsConsume(src)
        /\ sheet_depth(src) <= BraceCount(src)

\* `@media c{@media }{}}`: a rule nested in a rule, two levels deep
C26_Witness ==
    /\ Parsed
    /\ mode = "nest"
    /\ src = MediaHead \o AtMediaTag \o <<"}", "{", "}", "}">>
    /\ res.ok
    /\ sheet_depth(src) = 2
    /\ BraceCount(src) = 2

----------------------------------------------------------------------------
(* Claims about the literal-string macro (checked under SpecMacro) *)

\* the tokens between the commas of t, from position i on
RECURSIVE Groups(_, _, _)
Groups(t, i, from) ==
    IF i > Len(t) THEN <<SubSeq(t, from, Len(t))>>
    ELSE IF t[i] = "," THEN <<SubSeq(t, from, i - 1)>> \o Groups(t, i + 1, i + 1)
    ELSE Groups(t, i + 1, from)

\* `, name = tokens` once per argument, with or without a comma at the end
ArgumentGroups(t) == Tail(Groups(t, 1, 1))

WellFormedArguments(t) ==
    \/ t = <<>>
    \/ /\ t[1] = ","
       /\ \A k \in 1 .. Len(ArgumentGroups(t)) :
              LET g == ArgumentGroups(t)[k]
              IN  \/ g = <<>> /\ k = Len(ArgumentGroups(t))
                  \/ Len(g) >= 2 /\ g[1] \in Idents /\ g[2] = "="

SuppliedSeq(t) ==
    SelectSeq(ArgumentGroups(t), LAMBDA g : g # <<>>)

Supplied(t) == {NameOf(SuppliedSeq(t)[k][1]) : k \in 1 .. Len(SuppliedSeq(t))}

SuppliedTwice(t) ==
    \E j, k \in 1 .. Len(SuppliedSeq(t)) :
        j # k /\ SuppliedSeq(t)[j][1] = SuppliedSeq(t)[k][1]

Referenced(text) ==
    {content_names(parse(text).sheet)[k] :
         k \in 1 .. Len(content_names(parse(text).sheet))}

\* C27: the macro expands only when the supplied argument names are the
\* placeholder names of the parsed sheet; a placeholder without an
\* argument aborts with the missing-argument error, an argument without a
\* placeholder with the not-used error, and a name supplied twice with the
\* duplicate-argument error, whether the second one ends with a comma or
\* with the input.
C27_ArgumentsMatchPlaceholders ==
    (mode = "macro" /\ expansion.phase = "expanded" /\ parse(expansion.text).ok) =>
        LET t == expansion.tokens
            supplied == Supplied(t)
            referenced == Referenced(expansion.text)
        IN  /\ expansion.outcome = "ok" =>
                   (WellFormedArguments(t) /\ supplied = referenced)
            /\ (WellFormedArguments(t) /\ SuppliedTwice(t)) =>
                   expansion.outcome = "duplicate named argument"
            /\ (WellFormedArguments(t) /\ ~SuppliedTwice(t)
                    /\ ~(referenced \subseteq supplied)) =>
                   expansion.outcome = "missing argument"
            /\ (WellFormedArguments(t) /\ ~SuppliedTwice(t)
                    /\ referenced \subseteq supplied
                    /\ ~(supplied \subseteq referenced)) =>
                   expansion.outcome = "argument is not used"

\* `c{a:${v};a:${w}}` with `, v = 1, w = 1, v = 1`: the second `v` ends
\* with the input
C27_Witness ==
    /\ mode = "macro"
    /\ expansion.phase = "expanded"
    /\ Referenced(expansion.text) = {<<"v">>, <<"w">>}
    /\ expansion.tokens = <<",", "v", "=", "1", ",", "w", "=", "1",
                            ",", "v", "=", "1">>
    /\ expansion.outcome = "duplicate named argument"

----------------------------------------------------------------------------
(* Claims about ReifyContext (checked under SpecContext) *)

----------------------------------------------------------------------------
(* Claims about commas in a selector list (checked under SpecCommas) *)

\* t without the whitespace at its end
StripEnd(t) ==
    LET K == {k \in 1 .. Len(t) : t[k] \notin Whitespace}
    IN  IF K = {} THEN <<>> ELSE SubSeq(t, 1, Max(K))

\* the last character of t before the whitespace at its end is a comma
TrailingComma(t) ==
    LET u == StripEnd(t) IN u # <<>> /\ u[Len(u)] = ","

\* t with that comma taken out
WithoutTrailingComma(t) ==
    LET n == Len(StripEnd(t))
    IN  SubSeq(t, 1, n - 1) \o SubSeq(t, n + 1, Len(t))

LeadingComma(t) ==
    \E k \in 1 .. Len(t) :
        t[k] = "," /\ \A j \in 1 .. k - 1 : t[j] \in Whitespace

ConsecutiveCommas(t) ==
    \E j, k \in 1 .. Len(t) :
        /\ j < k
        /\ t[j] = "," /\ t[k] = ","
        /\ \A m \in j + 1 .. k - 1 : t[m] \in Whitespace

SameOutcome(a, b) == a.ok = b.ok /\ (a.ok => a.val = b.val)

\* C30: a selector list with a trailing comma before `{` is accepted and
\* the comma is ignored: the list followed by a comma parses to the same
\* Block, with the same Selectors, as the list without it; a leading comma
\* or two consecutive commas make the block alternative fail.
C30_TrailingCommaIgnored ==
    \A f \in CommaFrames :
        (Parsed /\ mode = "commas" /\ Framed(f)) =>
            LET t == FrameBody(f)
                u == WithoutTrailingComma(t)
            IN  /\ (TrailingComma(t) /\ ~IsBlank(u) /\ ~TrailingComma(u)) =>
                       /\ SameOutcome(block(src, 1), block(u \o f.post, 1))
                       /\ res = parse(u \o f.post)
                /\ (LeadingComma(t) \/ ConsecutiveCommas(t)) =>
                       ~block(src, 1).ok

\* `c, d, {a:b;}` parsed to one Block with the two Selectors c and d
C30_Witness ==
    /\ Parsed
    /\ mode = "commas"
    /\ depth = 1
    /\ src = <<"c", ",", " ", "d", ",">> \o <<"{">> \o Decl \o <<"}">>
    /\ res.ok
    /\ Len(res.sheet) = 1
    /\ res.sheet[1].condition = << Selector(<<StringFragment(<<"c">>)>>),
                                   Selector(<<StringFragment(<<"d">>)>>) >>
    /\ block(src, 1).ok

====
